---- MODULE Spec2Model ----
(***************************************************************************)
(* A model of the gx10-dashboard alert and delivery pipeline:              *)
(*   - the client store (client/src/store/useStore.ts): setMetrics,        *)
(*     checkThresholdsAndCreateAlerts, addAlert, dismissAlert, clearAlerts *)
(*     and the settings actions;                                           *)
(*   - the server broadcast loop (server/src/websocket.ts, newest          *)
(*     revision in unnamed/part_018): the connection handler, the          *)
(*     setInterval callback, sendMetrics and the close handlers.           *)
(* The two halves share no state; each has its own next-state relation.    *)
(***************************************************************************)
EXTENDS Integers, Sequences, FiniteSets, TLC

(***************************************************************************)
(* Bounds of the model (not program constants).                            *)
(***************************************************************************)
\* snapshots the general store environment delivers
MaxTicks == 3
\* alert ids the general store environment may consume
MaxIds == 3
\* snapshots the flood environment delivers (enough to pass MAX_ALERTS)
MaxFloodTicks == 102
\* WebSocket connections the server accepts
MaxConns == 2
\* interval callbacks that may be awaiting collectMetrics at once
MaxInFlight == 2
\* threshold objects that may be alive at once on top of the four built-in
\* ones
MaxObjs == 2
\* records the durable-buffer environment appends
MaxAppends == 4
\* WebSocket objects (and reconnect timers) the hook may have alive at once
MaxSockets == 2
\* the hook's connection attempts are counted modulo this
AttemptsMod == 3
\* snapshots and caller-made alerts the cap environment delivers
MaxCapTicks == 2
MaxCapIds == 2
\* calls of initPersistence, and cleanup runs, the persistence environment
\* makes
MaxInits == 2
MaxCleanups == 2
\* the latest snapshot after which the escalation environment dismisses a
\* warning Alert
MaxEarlyTicks == 2
\* history entries the brain environment pushes (enough to pass the limit)
MaxSwitches == 102

(***************************************************************************)
(* Program constants of the client store.                                  *)
(***************************************************************************)
MAX_ALERTS == 100
\* mutant: the capacity of the earlier store revision
Mut_MAX_HISTORY == 60
MAX_HISTORY == 30
\* the model's rendering of JavaScript null for a numeric field
NULL == -1

AlertTypes == {"cpu", "gpu_temp", "memory", "disk"}

DEFAULT_THRESHOLDS ==
  [cpu      |-> [warning |-> 80, critical |-> 90],
   gpu_temp |-> [warning |-> 75, critical |-> 85],
   memory   |-> [warning |-> 80, critical |-> 90],
   disk     |-> [warning |-> 85, critical |-> 95]]

VARIABLES
  \* ---- client store state (DashboardStore) ----
  alerts,               \* Alert[]: sequence of alert records
  metricsHistory,       \* MetricsHistory[]: in-memory window
  metrics,              \* last MetricsData, or NoMetrics
  status,               \* FullStatus | null, reduced to its disk percentages
  alertThresholds,      \* AlertThresholds
  alertsEnabled,        \* boolean
  persistenceEnabled,   \* boolean
  connected,            \* boolean
  error,                \* string | null
  \* ---- client module state and browser environment ----
  persistenceInitialized, \* module-level flag set by initPersistence
  storedAlerts,         \* localStorage[ALERTS_STORAGE_KEY]
  permission,           \* Notification.permission
  promptPending,        \* a Notification.requestPermission() awaits an answer
  notifications,        \* alert ids for which a native Notification was built
  pendingSaves,         \* records handed to saveMetricsToIndexedDB
  nextId,               \* generateAlertId(): next fresh opaque id
  ticks,                \* snapshots delivered so far by the environment
  \* ---- history variable (read by properties only) ----
  undismissed           \* [id, type, severity] of the alerts created and neither
                        \* dismissed nor cleared since

storeVars == <<alerts, metricsHistory, metrics, status, alertThresholds,
               alertsEnabled, persistenceEnabled, connected, error,
               persistenceInitialized,
               storedAlerts, permission, promptPending, notifications,
               pendingSaves,
               nextId, ticks, undismissed>>

VARIABLES
  \* ---- server: setupWebSocket's closure and the process ----
  clients,              \* Set<WebSocket>, in insertion (iteration) order
  readyState,           \* ws.readyState of every connection
  initJobs,             \* connections whose sendMetrics awaits collectMetrics
  ticksInFlight,        \* interval callbacks awaiting collectMetrics
  intervalId,           \* "armed" until the wss close handler clears it
  lastTick,             \* what the latest interval callback did on firing
  processAlive,         \* the Node.js process is running
  lastSends             \* the ws.send calls of the latest message built

serverVars == <<clients, readyState, initJobs, ticksInFlight, intervalId,
                lastTick, processAlive, lastSends>>

VARIABLES
  \* ---- server: services/alerts.ts module state and its callers ----
  heap,                 \* the {warning, critical} objects, by reference
  currentThresholds,    \* category -> reference of its threshold object
  held,                 \* the AlertThresholds object a caller got back
  lastEval,             \* the latest checkAlerts call: input and result
  \* ---- server: config.ts module state and the HTTP routes ----
  currentConfig,        \* currentConfig.alerts.thresholds
  response              \* the latest HTTP response of the update routes

thVars == <<heap, currentThresholds, held, lastEval, currentConfig,
            response>>

VARIABLES
  \* ---- client: the IndexedDB object store 'metrics' ----
  byTimestamp,          \* its records in 'by-timestamp' index order
  nextKey,              \* the autoIncrement key generator
  lastRun               \* history: the latest enforceMaxRecords transaction

dbVars == <<byTimestamp, nextKey, lastRun>>

VARIABLES
  \* ---- client: initPersistence's module state and its environment ----
  cleanupInterval,      \* "armed" once setInterval has run, else "null"
  hasIndexedDB,         \* 'indexedDB' in window
  opensPending,         \* openDatabase() promises initPersistence awaits
  cleanupRuns,          \* cleanupOldRecords + enforceMaxRecords pairs issued
  inits                 \* history: calls of initPersistence so far

persistVars == <<cleanupInterval, hasIndexedDB, opensPending, cleanupRuns,
                 inits>>

VARIABLES
  \* ---- client: the useWebSocket hook and the browser's sockets/timers ----
  wsState,              \* every WebSocket the hook constructed and not yet
                        \* closed: "connecting", "open" or "closing"
  wsRef,                \* wsRef.current, NoSocket for null
  timerPending,         \* the setTimeout timers not yet fired or cleared
  reconnectTimeoutRef,  \* reconnectTimeoutRef.current, NoTimer for undefined
  attempts,             \* history: new WebSocket(...) calls, modulo AttemptsMod
  lastAttempt,          \* history: who made the latest of them
  afterDisconnect       \* history: what happened since the last disconnect()

wsVars == <<wsState, wsRef, timerPending, reconnectTimeoutRef, attempts,
            lastAttempt, afterDisconnect>>

VARIABLES
  \* ---- server: the delay setupWebSocket handed to setInterval ----
  updateInterval,
  \* ---- server: services/brain.ts module state and the host ----
  switchHistory,        \* BrainHistoryEntry[]
  activeBrain,          \* what getBrainStatus() reports as active
  switches,             \* history: entries pushed so far
  lastResult            \* the BrainSwitchResult of the latest call

brainVars == <<switchHistory, activeBrain, switches, lastResult>>

extVars == <<persistVars, wsVars, updateInterval, brainVars>>

vars == <<storeVars, serverVars, thVars, dbVars, extVars>>

(***************************************************************************)
(* Sequence helpers.                                                       *)
(***************************************************************************)
\* mutant: the first n elements are kept
Mut_SliceFirst(s, n) ==
  IF Len(s) <= n THEN s ELSE SubSeq(s, 1, n)

\* Array.prototype.slice(-n): the last n elements
SliceLast(s, n) ==
  IF Len(s) <= n THEN s ELSE SubSeq(s, Len(s) - n + 1, Len(s))

\* Math.max(...xs); -Infinity (here NULL, below every percentage) when empty
RECURSIVE MaxOf(_)
MaxOf(xs) ==
  IF xs = <<>> THEN NULL
  ELSE LET r == MaxOf(Tail(xs)) IN IF Head(xs) >= r THEN Head(xs) ELSE r

(***************************************************************************)
(* Snapshots.                                                              *)
(***************************************************************************)
NoGpu == [present |-> FALSE, utilization |-> NULL, temperature |-> NULL]
Gpu(u, t) == [present |-> TRUE, utilization |-> u, temperature |-> t]
NoMetrics == [timestamp |-> NULL, cpu |-> NULL, memory |-> NULL, gpu |-> NoGpu]
NoStatus == [loaded |-> FALSE, disk |-> <<>>]

\* metrics.gpu?.utilization ?? null
GpuUtilization(m) == IF m.gpu.present THEN m.gpu.utilization ELSE NULL

\* the store's error field when it is null
NoError == "null"

(***************************************************************************)
(* showBrowserNotification(alert): the ids notified by this call.          *)
(***************************************************************************)
\* mutant: the severity is not looked at
Mut_showBrowserNotificationAnySeverity(alert) ==
  IF permission = "granted"
  THEN {alert.id} ELSE {}

showBrowserNotification(alert) ==
  IF permission = "granted" /\ alert.severity = "critical"
  THEN {alert.id} ELSE {}

(***************************************************************************)
(* checkThresholdsAndCreateAlerts                                          *)
(***************************************************************************)
\* the if / else-if ladder applied to one observed value
Breach(value, th) ==
  IF value >= th.critical
  THEN [hit |-> TRUE, severity |-> "critical", threshold |-> th.critical]
  ELSE IF value >= th.warning
  THEN [hit |-> TRUE, severity |-> "warning", threshold |-> th.warning]
  ELSE [hit |-> FALSE, severity |-> "none", threshold |-> NULL]

\* the categories the function looks at, in source order, with the value read
Observed(m, st) ==
  <<[type |-> "cpu", value |-> m.cpu]>>
  \o (IF m.gpu.present
      THEN <<[type |-> "gpu_temp", value |-> m.gpu.temperature]>> ELSE <<>>)
  \o <<[type |-> "memory", value |-> m.memory]>>
  \o (IF st.loaded
      THEN <<[type |-> "disk", value |-> MaxOf(st.disk)]>> ELSE <<>>)

\* mutants of the guard: the negation lost, the type ignored, the dismissed
\* flag ignored
Mut_hasExistingDismissed(existingAlerts, type) ==
  \E i \in 1..Len(existingAlerts) : existingAlerts[i].type = type /\ existingAlerts[i].dismissed

Mut_hasExistingAnyType(existingAlerts, type) ==
  \E i \in 1..Len(existingAlerts) : ~existingAlerts[i].dismissed

Mut_hasExistingAnyFlag(existingAlerts, type) ==
  \E i \in 1..Len(existingAlerts) : existingAlerts[i].type = type

\* createAlert's guard: a non-dismissed alert of this type already exists
hasExistingAlert(existingAlerts, type) ==
  \E i \in 1..Len(existingAlerts) : existingAlerts[i].type = type /\ ~existingAlerts[i].dismissed

\* the calls of createAlert that push an alert, in order
RECURSIVE CreateFrom(_, _, _, _)
\* mutant: a critical breach is pushed whatever the list holds
Mut_CreateFromEscalates(obs, thresholds, existingAlerts, id) ==
  IF obs = <<>> THEN <<>>
  ELSE LET o == Head(obs)
           b == Breach(o.value, thresholds[o.type])
       IN IF b.hit /\ (~hasExistingAlert(existingAlerts, o.type) \/ b.severity = "critical")
          THEN <<[id |-> id, type |-> o.type, severity |-> b.severity,
                  value |-> o.value, threshold |-> b.threshold,
                  dismissed |-> FALSE]>>
               \o CreateFrom(Tail(obs), thresholds, existingAlerts, id + 1)
          ELSE CreateFrom(Tail(obs), thresholds, existingAlerts, id)

CreateFrom(obs, thresholds, existingAlerts, id) ==
  IF obs = <<>> THEN <<>>
  ELSE LET o == Head(obs)
           b == Breach(o.value, thresholds[o.type])
       IN IF b.hit /\ ~hasExistingAlert(existingAlerts, o.type)
          THEN <<[id |-> id, type |-> o.type, severity |-> b.severity,
                  value |-> o.value, threshold |-> b.threshold,
                  dismissed |-> FALSE]>>
               \o CreateFrom(Tail(obs), thresholds, existingAlerts, id + 1)
          ELSE CreateFrom(Tail(obs), thresholds, existingAlerts, id)

checkThresholdsAndCreateAlerts(m, st, thresholds, existingAlerts) ==
  CreateFrom(Observed(m, st), thresholds, existingAlerts, nextId)

(***************************************************************************)
(* Store actions.                                                          *)
(***************************************************************************)
HistorySample(m) ==
  [timestamp |-> m.timestamp, cpu |-> m.cpu, memory |-> m.memory,
   gpu |-> GpuUtilization(m)]

PersistedSample(m) ==
  [timestamp |-> m.timestamp, cpu |-> m.cpu, memory |-> m.memory,
   gpu |-> GpuUtilization(m),
   gpuTemp |-> IF m.gpu.present THEN m.gpu.temperature ELSE NULL]

\* mutant: the alertsEnabled test is gone
Mut_setMetricsAlwaysChecks(m) ==
  LET history == SliceLast(Append(metricsHistory, HistorySample(m)), MAX_HISTORY)
      newAlerts == checkThresholdsAndCreateAlerts(m, status, alertThresholds, alerts)
      updatedAlerts == IF Len(newAlerts) > 0
                       THEN SliceLast(alerts \o newAlerts, MAX_ALERTS)
                       ELSE alerts
  IN /\ metricsHistory' = history
     /\ metrics' = m
     /\ alerts' = updatedAlerts
     /\ storedAlerts' = IF Len(newAlerts) > 0 THEN updatedAlerts ELSE storedAlerts
     /\ notifications' = notifications \cup
          UNION {showBrowserNotification(newAlerts[i]) : i \in 1..Len(newAlerts)}
     /\ nextId' = nextId + Len(newAlerts)
     /\ undismissed' = undismissed \cup
          {[id |-> newAlerts[i].id, type |-> newAlerts[i].type,
            severity |-> newAlerts[i].severity] : i \in 1..Len(newAlerts)}
     /\ pendingSaves' = IF persistenceEnabled /\ persistenceInitialized
                        THEN Append(pendingSaves, PersistedSample(m))
                        ELSE pendingSaves
     /\ error' = NoError
     /\ UNCHANGED <<status, alertThresholds, alertsEnabled, persistenceEnabled,
                    connected, persistenceInitialized, permission,
                    promptPending>>

\* mutant: the module flag persistenceInitialized is not looked at
Mut_setMetricsSavesUninitialized(m) ==
  LET history == SliceLast(Append(metricsHistory, HistorySample(m)), MAX_HISTORY)
      newAlerts == IF alertsEnabled
                   THEN checkThresholdsAndCreateAlerts(m, status, alertThresholds, alerts)
                   ELSE <<>>
      updatedAlerts == IF Len(newAlerts) > 0
                       THEN SliceLast(alerts \o newAlerts, MAX_ALERTS)
                       ELSE alerts
  IN /\ metricsHistory' = history
     /\ metrics' = m
     /\ alerts' = updatedAlerts
     /\ storedAlerts' = IF Len(newAlerts) > 0 THEN updatedAlerts ELSE storedAlerts
     /\ notifications' = notifications \cup
          UNION {showBrowserNotification(newAlerts[i]) : i \in 1..Len(newAlerts)}
     /\ nextId' = nextId + Len(newAlerts)
     /\ undismissed' = undismissed \cup
          {[id |-> newAlerts[i].id, type |-> newAlerts[i].type,
            severity |-> newAlerts[i].severity] : i \in 1..Len(newAlerts)}
     /\ pendingSaves' = IF persistenceEnabled
                        THEN Append(pendingSaves, PersistedSample(m))
                        ELSE pendingSaves
     /\ error' = NoError
     /\ UNCHANGED <<status, alertThresholds, alertsEnabled, persistenceEnabled,
                    connected, persistenceInitialized, permission,
                    promptPending>>

setMetrics(m) ==
  LET history == SliceLast(Append(metricsHistory, HistorySample(m)), MAX_HISTORY)
      newAlerts == IF alertsEnabled
                   THEN checkThresholdsAndCreateAlerts(m, status, alertThresholds, alerts)
                   ELSE <<>>
      updatedAlerts == IF Len(newAlerts) > 0
                       THEN SliceLast(alerts \o newAlerts, MAX_ALERTS)
                       ELSE alerts
  IN /\ metricsHistory' = history
     /\ metrics' = m
     /\ alerts' = updatedAlerts
     /\ storedAlerts' = IF Len(newAlerts) > 0 THEN updatedAlerts ELSE storedAlerts
     /\ notifications' = notifications \cup
          UNION {showBrowserNotification(newAlerts[i]) : i \in 1..Len(newAlerts)}
     /\ nextId' = nextId + Len(newAlerts)
     /\ undismissed' = undismissed \cup
          {[id |-> newAlerts[i].id, type |-> newAlerts[i].type,
            severity |-> newAlerts[i].severity] : i \in 1..Len(newAlerts)}
     /\ pendingSaves' = IF persistenceEnabled /\ persistenceInitialized
                        THEN Append(pendingSaves, PersistedSample(m))
                        ELSE pendingSaves
     /\ error' = NoError
     /\ UNCHANGED <<status, alertThresholds, alertsEnabled, persistenceEnabled,
                    connected, persistenceInitialized, permission,
                    promptPending>>

setStatus(st) ==
  /\ status' = st
  /\ error' = NoError
  /\ UNCHANGED <<connected, alerts, metricsHistory, metrics, alertThresholds, alertsEnabled,
                 persistenceEnabled, persistenceInitialized, storedAlerts,
                 permission, promptPending, notifications, pendingSaves, nextId, ticks,
                 undismissed>>

\* mutant: the list is not sliced
Mut_addAlertNoSlice(alert) ==
  /\ IF hasExistingAlert(alerts, alert.type)
     THEN UNCHANGED <<alerts, storedAlerts, notifications, undismissed>>
     ELSE LET updatedAlerts == Append(alerts, alert)
          IN /\ alerts' = updatedAlerts
             /\ storedAlerts' = updatedAlerts
             /\ notifications' = notifications \cup showBrowserNotification(alert)
             /\ undismissed' = IF alert.dismissed THEN undismissed
                               ELSE undismissed \cup {[id |-> alert.id, type |-> alert.type,
                                                    severity |-> alert.severity]}
  /\ UNCHANGED <<connected, error, metricsHistory, metrics, status, alertThresholds, alertsEnabled,
                 persistenceEnabled, persistenceInitialized, permission, promptPending,
                 pendingSaves, ticks>>

addAlert(alert) ==
  /\ IF hasExistingAlert(alerts, alert.type)
     THEN UNCHANGED <<alerts, storedAlerts, notifications, undismissed>>
     ELSE LET updatedAlerts == SliceLast(Append(alerts, alert), MAX_ALERTS)
          IN /\ alerts' = updatedAlerts
             /\ storedAlerts' = updatedAlerts
             /\ notifications' = notifications \cup showBrowserNotification(alert)
             /\ undismissed' = IF alert.dismissed THEN undismissed
                               ELSE undismissed \cup {[id |-> alert.id, type |-> alert.type,
                                                    severity |-> alert.severity]}
  /\ UNCHANGED <<connected, error, metricsHistory, metrics, status, alertThresholds, alertsEnabled,
                 persistenceEnabled, persistenceInitialized, permission, promptPending,
                 pendingSaves, ticks>>

dismissAlert(id) ==
  LET updatedAlerts ==
        [i \in 1..Len(alerts) |->
           IF alerts[i].id = id THEN [alerts[i] EXCEPT !.dismissed = TRUE]
           ELSE alerts[i]]
  IN /\ alerts' = updatedAlerts
     /\ storedAlerts' = updatedAlerts
     /\ undismissed' = {u \in undismissed : u.id # id}
     /\ UNCHANGED <<connected, error, metricsHistory, metrics, status, alertThresholds, alertsEnabled,
                    persistenceEnabled, persistenceInitialized, permission, promptPending,
                    notifications, pendingSaves, nextId, ticks>>

clearAlerts ==
  /\ alerts' = <<>>
  /\ storedAlerts' = <<>>
  /\ undismissed' = {}
  /\ UNCHANGED <<connected, error, metricsHistory, metrics, status, alertThresholds, alertsEnabled,
                 persistenceEnabled, persistenceInitialized, permission, promptPending,
                 notifications, pendingSaves, nextId, ticks>>

setAlertThresholds(thresholds) ==
  /\ alertThresholds' = thresholds
  /\ UNCHANGED <<connected, error, alerts, metricsHistory, metrics, status, alertsEnabled,
                 persistenceEnabled, persistenceInitialized, storedAlerts,
                 permission, promptPending, notifications, pendingSaves, nextId, ticks,
                 undismissed>>

\* requestNotificationPermission(): prompts only while the permission is
\* "default"
requestNotificationPermission ==
  promptPending' = (promptPending \/ permission = "default")

setAlertsEnabled(enabled) ==
  /\ alertsEnabled' = enabled
  /\ IF enabled THEN requestNotificationPermission ELSE UNCHANGED promptPending
  /\ UNCHANGED <<connected, error, alerts, metricsHistory, metrics, status, alertThresholds,
                 persistenceEnabled, persistenceInitialized, storedAlerts,
                 permission, notifications, pendingSaves, nextId, ticks,
                 undismissed>>

\* the user answers the browser's permission prompt
PermissionAnswer(answer) ==
  /\ promptPending
  /\ promptPending' = FALSE
  /\ permission' = answer
  /\ UNCHANGED <<connected, error, alerts, metricsHistory, metrics, status, alertThresholds,
                 alertsEnabled, persistenceEnabled, persistenceInitialized,
                 storedAlerts, notifications, pendingSaves, nextId, ticks,
                 undismissed>>

(***************************************************************************)
(* Initial state: the store as created with empty localStorage; the        *)
(* module has just called requestNotificationPermission() on load.         *)
(***************************************************************************)
StoreInit ==
  /\ alerts = <<>>
  /\ metricsHistory = <<>>
  /\ metrics = NoMetrics
  /\ status = NoStatus
  /\ alertThresholds = DEFAULT_THRESHOLDS
  /\ alertsEnabled = TRUE
  /\ persistenceEnabled = TRUE
  /\ connected = FALSE
  /\ error = NoError
  /\ persistenceInitialized = FALSE
  /\ storedAlerts = <<>>
  /\ permission = "default"
  /\ promptPending = TRUE
  /\ notifications = {}
  /\ pendingSaves = <<>>
  /\ nextId = 1
  /\ ticks = 0
  /\ undismissed = {}

(***************************************************************************)
(* The server: setupWebSocket, sendMetrics, collectMetrics.                *)
(* collectMetrics is the asynchronous metric source: a call is in flight   *)
(* from the moment it is made until the environment resolves or rejects    *)
(* it (getCpuInfo reads /proc/stat with no catch, so it can reject).       *)
(* The timer has no clock here: the interval callback may fire whenever    *)
(* the interval is armed, in particular while an earlier callback still    *)
(* awaits collectMetrics.                                                  *)
(***************************************************************************)
Conns == 1..MaxConns

\* one ws.send(message) call on connection c, made while c was in `state`;
\* ok: the call returned normally and the connection was open
SendCall(c, kind, ok) ==
  [to |-> c, kind |-> kind, state |-> readyState[c], ok |-> ok]

\* Set.delete
SetDelete(set, c) == SelectSeq(set, LAMBDA x : x # c)

\* the elements of a sequence
Range(q) == {q[i] : i \in 1..Len(q)}

\* position of a registered connection in iteration order
Pos(c) == CHOOSE i \in 1..Len(clients) : clients[i] = c

\* a promise rejection nobody handles: Node.js (>= 15, the README asks for
\* 20) terminates the process unless the entry point, which is not part of
\* this code, installs an unhandledRejection handler
UnhandledRejection == processAlive' \in BOOLEAN

\* wss.on('connection'): register, start sendMetrics(ws), attach handlers
Connect(c) ==
  /\ processAlive
  /\ intervalId = "armed"
  /\ readyState[c] = "NONE"
  /\ readyState' = [readyState EXCEPT ![c] = "OPEN"]
  /\ clients' = Append(clients, c)
  /\ initJobs' = initJobs \cup {c}
  /\ UNCHANGED <<ticksInFlight, intervalId, lastTick, processAlive, lastSends>>
  /\ UNCHANGED <<storeVars, thVars, dbVars, extVars>>

\* mutant: the initial message goes to every registered open client
Mut_InitCollectOkBroadcast(c) ==
  /\ processAlive
  /\ c \in initJobs
  /\ initJobs' = initJobs \ {c}
  /\ lastSends' =
       {SendCall(x, "init", TRUE) :
          x \in {y \in Range(clients) \cup {c} : readyState[y] = "OPEN"}}
  /\ UNCHANGED <<clients, readyState, ticksInFlight, intervalId, lastTick,
                 processAlive>>
  /\ UNCHANGED <<storeVars, thVars, dbVars, extVars>>

\* sendMetrics: collectMetrics resolved; ws.send with no readyState check,
\* inside try/catch
InitCollectOk(c) ==
  /\ processAlive
  /\ c \in initJobs
  /\ initJobs' = initJobs \ {c}
  /\ \E ok \in (IF readyState[c] = "OPEN" THEN BOOLEAN ELSE {FALSE}) :
       lastSends' = {SendCall(c, "init", ok)}
  /\ UNCHANGED <<clients, readyState, ticksInFlight, intervalId, lastTick,
                 processAlive>>
  /\ UNCHANGED <<storeVars, thVars, dbVars, extVars>>

\* sendMetrics: collectMetrics rejected; caught and logged
InitCollectFail(c) ==
  /\ processAlive
  /\ c \in initJobs
  /\ initJobs' = initJobs \ {c}
  /\ UNCHANGED <<clients, readyState, ticksInFlight, intervalId, lastTick,
                 processAlive, lastSends>>
  /\ UNCHANGED <<storeVars, thVars, dbVars, extVars>>

\* mutant: the callback without its clients.size test
Mut_TimerFireNoSizeCheck ==
  /\ processAlive
  /\ intervalId = "armed"
  /\ ticksInFlight < MaxInFlight
  /\ ticksInFlight' = ticksInFlight + 1
  /\ lastTick' = "collecting"
  /\ UNCHANGED <<clients, readyState, initJobs, intervalId, processAlive, lastSends>>
  /\ UNCHANGED <<storeVars, thVars, dbVars, extVars>>

\* the interval callback up to its await
TimerFire ==
  /\ processAlive
  /\ intervalId = "armed"
  /\ IF Len(clients) = 0
     THEN /\ lastTick' = "skipped"
          /\ UNCHANGED ticksInFlight
     ELSE /\ ticksInFlight < MaxInFlight
          /\ ticksInFlight' = ticksInFlight + 1
          /\ lastTick' = "collecting"
  /\ UNCHANGED <<clients, readyState, initJobs, intervalId, processAlive, lastSends>>
  /\ UNCHANGED <<storeVars, thVars, dbVars, extVars>>

\* the interval callback after its await: clients.forEach, every send returns
TickBroadcast ==
  /\ processAlive
  /\ ticksInFlight > 0
  /\ ticksInFlight' = ticksInFlight - 1
  /\ lastSends' =
       {SendCall(c, "tick", TRUE) :
          c \in {x \in Range(clients) : readyState[x] = "OPEN"}}
  /\ UNCHANGED <<clients, readyState, initJobs, intervalId, lastTick, processAlive>>
  /\ UNCHANGED <<storeVars, thVars, dbVars, extVars>>

\* the same, but client.send throws for the open client f: forEach stops
\* there and the callback's promise rejects
TickBroadcastThrows(f) ==
  /\ processAlive
  /\ ticksInFlight > 0
  /\ f \in Range(clients)
  /\ readyState[f] = "OPEN"
  /\ ticksInFlight' = ticksInFlight - 1
  /\ lastSends' =
       {SendCall(c, "tick", c # f) :
          c \in {x \in Range(clients) : readyState[x] = "OPEN" /\ Pos(x) <= Pos(f)}}
  /\ UnhandledRejection
  /\ UNCHANGED <<clients, readyState, initJobs, intervalId, lastTick>>
  /\ UNCHANGED <<storeVars, thVars, dbVars, extVars>>

\* the interval callback after its await: collectMetrics rejected and the
\* callback has no try/catch
TickCollectFail ==
  /\ processAlive
  /\ ticksInFlight > 0
  /\ ticksInFlight' = ticksInFlight - 1
  /\ UnhandledRejection
  /\ UNCHANGED <<clients, readyState, initJobs, intervalId, lastTick, lastSends>>
  /\ UNCHANGED <<storeVars, thVars, dbVars, extVars>>

\* wss.on('close'): clearInterval(intervalId)
ServerClose ==
  /\ processAlive
  /\ intervalId = "armed"
  /\ intervalId' = "cleared"
  /\ UNCHANGED <<clients, readyState, initJobs, ticksInFlight, lastTick,
                 processAlive, lastSends>>
  /\ UNCHANGED <<storeVars, thVars, dbVars, extVars>>

\* the connection starts closing (close frame, network failure): readyState
\* leaves OPEN before any event is emitted
WsClosing(c) ==
  /\ processAlive
  /\ readyState[c] = "OPEN"
  /\ readyState' = [readyState EXCEPT ![c] = "CLOSING"]
  /\ UNCHANGED <<clients, initJobs, ticksInFlight, intervalId, lastTick,
                 processAlive, lastSends>>
  /\ UNCHANGED <<storeVars, thVars, dbVars, extVars>>

\* ws.on('error'): clients.delete(ws)
WsError(c) ==
  /\ processAlive
  /\ readyState[c] \in {"OPEN", "CLOSING"}
  /\ c \in Range(clients)
  /\ readyState' = [readyState EXCEPT ![c] = "CLOSING"]
  /\ clients' = SetDelete(clients, c)
  /\ UNCHANGED <<initJobs, ticksInFlight, intervalId, lastTick, processAlive,
                 lastSends>>
  /\ UNCHANGED <<storeVars, thVars, dbVars, extVars>>

\* ws.on('close'): clients.delete(ws)
WsClose(c) ==
  /\ processAlive
  /\ readyState[c] \in {"OPEN", "CLOSING"}
  /\ readyState' = [readyState EXCEPT ![c] = "CLOSED"]
  /\ clients' = SetDelete(clients, c)
  /\ UNCHANGED <<initJobs, ticksInFlight, intervalId, lastTick, processAlive,
                 lastSends>>
  /\ UNCHANGED <<storeVars, thVars, dbVars, extVars>>

ServerInit ==
  /\ clients = <<>>
  /\ readyState = [c \in Conns |-> "NONE"]
  /\ initJobs = {}
  /\ ticksInFlight = 0
  /\ intervalId = "armed"
  /\ lastTick = "none"
  /\ processAlive = TRUE
  /\ lastSends = {}

ServerNext ==
  \/ \E c \in Conns : Connect(c)
  \/ \E c \in Conns : InitCollectOk(c)
  \/ \E c \in Conns : InitCollectFail(c)
  \/ TimerFire
  \/ TickBroadcast
  \/ \E f \in Conns : TickBroadcastThrows(f)
  \/ TickCollectFail
  \/ ServerClose
  \/ \E c \in Conns : WsClosing(c)
  \/ \E c \in Conns : WsError(c)
  \/ \E c \in Conns : WsClose(c)

(***************************************************************************)
(* The server alerts service (services/alerts.ts).                         *)
(* A threshold object {warning, critical} is a mutable JavaScript object:  *)
(* it lives in the heap and is shared by every holder of its reference.    *)
(* Object spread ({...x}) copies the category -> reference map only.       *)
(***************************************************************************)
\* JavaScript values of a threshold field: a number, undefined (the
\* property is missing), or a non-numeric JSON value
Num(n) == [type |-> "number", n |-> n]
Undefined == [type |-> "undefined", n |-> 0]
NotNumeric == [type |-> "string", n |-> 0]
Fields == {"warning", "critical"}

\* typeof x === 'number'
IsNumber(x) == x.type = "number"

\* value >= x for a number value: false when x is undefined
ReachedBy(value, x) == IsNumber(x) /\ value >= x.n

\* object references: 1..4 are the objects of the DEFAULT_THRESHOLDS
\* literal, the others are allocated for the objects callers pass in
Refs == 1..(4 + MaxObjs)
NoRef == 0

\* DEFAULT_THRESHOLDS of the alerts service: the exported top-level object
DefaultRef == [cpu |-> 1, gpu_temp |-> 2, memory |-> 3, disk |-> 4]

\* the values its literal is built with
DefaultValues ==
  [cpu      |-> [warning |-> Num(80), critical |-> Num(90)],
   gpu_temp |-> [warning |-> Num(75), critical |-> Num(85)],
   memory   |-> [warning |-> Num(80), critical |-> Num(90)],
   disk     |-> [warning |-> Num(85), critical |-> Num(95)]]

Unallocated == [warning |-> Undefined, critical |-> Undefined]

\* what a category -> reference map currently reads as
Deref(th) == [c \in AlertTypes |-> heap[th[c]]]

\* mutant: the warning test made first
Mut_checkThresholdWarningFirst(type, value, thresholds) ==
  IF ReachedBy(value, thresholds.warning)
  THEN <<[type |-> type, severity |-> "warning", value |-> value,
          threshold |-> thresholds.warning]>>
  ELSE IF ReachedBy(value, thresholds.critical)
  THEN <<[type |-> type, severity |-> "critical", value |-> value,
          threshold |-> thresholds.critical]>>
  ELSE <<>>

\* checkThreshold: the event as a one-element list, the empty list for null
checkThreshold(type, value, thresholds) ==
  IF ReachedBy(value, thresholds.critical)
  THEN <<[type |-> type, severity |-> "critical", value |-> value,
          threshold |-> thresholds.critical]>>
  ELSE IF ReachedBy(value, thresholds.warning)
  THEN <<[type |-> type, severity |-> "warning", value |-> value,
          threshold |-> thresholds.warning]>>
  ELSE <<>>

\* mutant: a missing GPU read as a temperature of 100
Mut_checkAlertsGpuDefault(m, thresholds) ==
  checkThreshold("cpu", m.cpu, thresholds.cpu)
  \o checkThreshold("gpu_temp",
                    IF m.gpu.present /\ m.gpu.temperature # NULL
                    THEN m.gpu.temperature ELSE 100,
                    thresholds.gpu_temp)
  \o checkThreshold("memory", m.memory, thresholds.memory)

\* checkAlerts(metrics, thresholds)
checkAlerts(m, thresholds) ==
  checkThreshold("cpu", m.cpu, thresholds.cpu)
  \o (IF m.gpu.present /\ m.gpu.temperature # NULL
      THEN checkThreshold("gpu_temp", m.gpu.temperature, thresholds.gpu_temp)
      ELSE <<>>)
  \o checkThreshold("memory", m.memory, thresholds.memory)

\* garbage collection: an object neither the defaults, nor the current
\* thresholds, nor the caller's value refer to is gone
Collect(h, current, kept) ==
  [r \in Refs |->
     IF \E c \in AlertTypes :
          r = DefaultRef[c] \/ r = current[c] \/ r = kept[c]
     THEN h[r] ELSE Unallocated]

\* getThresholds(): { ...currentThresholds }; the caller keeps the result
getThresholds ==
  /\ held' = currentThresholds
  /\ heap' = Collect(heap, currentThresholds, held')
  /\ UNCHANGED <<currentThresholds, lastEval>>

\* references no live object uses: not a built-in object, not a current
\* threshold object, not reachable from the value a caller holds
FreeRefs ==
  {r \in Refs : \A c \in AlertTypes :
                  r # DefaultRef[c] /\ r # currentThresholds[c] /\ r # held[c]}

\* the reference of the object an update carries for category c (objects of
\* a request are new to the service)
NewRef(update, c) ==
  CHOOSE r \in FreeRefs :
    Cardinality({q \in FreeRefs : q < r}) =
      Cardinality({d \in DOMAIN update : DefaultRef[d] < DefaultRef[c]})

\* setThresholds(thresholds): `thresholds.cpu ?? currentThresholds.cpu` for
\* every category; the value returned is { ...currentThresholds }, which
\* the caller keeps (retained) or only serialises
setThresholds(update, retained) ==
  /\ Cardinality(DOMAIN update) <= Cardinality(FreeRefs)
  /\ currentThresholds' =
       [c \in AlertTypes |->
          IF c \in DOMAIN update THEN NewRef(update, c) ELSE currentThresholds[c]]
  /\ held' = IF retained THEN currentThresholds' ELSE held
  /\ heap' = Collect([r \in Refs |->
                        IF \E c \in DOMAIN update : r = NewRef(update, c)
                        THEN update[CHOOSE c \in DOMAIN update : r = NewRef(update, c)]
                        ELSE heap[r]],
                     currentThresholds', held')
  /\ UNCHANGED lastEval

\* resetThresholds(): { ...DEFAULT_THRESHOLDS }
resetThresholds(retained) ==
  /\ currentThresholds' = DefaultRef
  /\ held' = IF retained THEN currentThresholds' ELSE held
  /\ heap' = Collect(heap, currentThresholds', held')
  /\ UNCHANGED lastEval

\* a caller assigns a field of a category object of the value it got back
MutateReturned(c, f, v) ==
  /\ held[c] # NoRef
  /\ heap[held[c]][f] # v
  /\ heap' = [heap EXCEPT ![held[c]][f] = v]
  /\ UNCHANGED <<currentThresholds, held, lastEval>>

\* checkAlerts(metrics) with the default parameter currentThresholds
Evaluate(m) ==
  /\ lastEval' = [called |-> TRUE, metrics |-> m,
                  thresholds |-> Deref(currentThresholds),
                  alerts |-> checkAlerts(m, Deref(currentThresholds))]
  /\ UNCHANGED <<heap, currentThresholds, held>>

NoEval ==
  [called |-> FALSE, metrics |-> NoMetrics, thresholds |-> DefaultValues,
   alerts |-> <<>>]

ThresholdInit ==
  /\ heap = [r \in Refs |->
              IF \E c \in AlertTypes : DefaultRef[c] = r
              THEN DefaultValues[CHOOSE c \in AlertTypes : DefaultRef[c] = r]
              ELSE Unallocated]
  /\ currentThresholds = DefaultRef
  /\ held = [c \in AlertTypes |-> NoRef]
  /\ lastEval = NoEval

(***************************************************************************)
(* The HTTP update routes and config.ts.                                   *)
(* POST /api/alerts/thresholds and POST /api/alerts/thresholds/reset write *)
(* the alerts service; PUT /api/settings and POST /api/settings/reset      *)
(* write currentConfig, which holds its own thresholds.  A request body is *)
(* parsed JSON: a category of it is a fresh object, a field of it is a     *)
(* number, a non-numeric value, or missing (Undefined).                    *)
(***************************************************************************)
Bool(b) == [type |-> "boolean", n |-> IF b THEN 1 ELSE 0]

\* validTypes, in the order the validation loops visit them
validTypes == <<"cpu", "gpu_temp", "memory", "disk">>

\* the first category, in validTypes order, of a non-empty set
FirstType(bad) ==
  validTypes[CHOOSE i \in 1..Len(validTypes) :
               /\ validTypes[i] \in bad
               /\ \A j \in 1..(i - 1) : validTypes[j] \notin bad]

\* defaultConfig
defaultConfig ==
  [server |-> [port |-> Num(9000), updateInterval |-> Num(10000)],
   alerts |-> [enabled |-> Bool(TRUE), thresholds |-> DefaultValues]]

\* the categories of a request body, Unallocated for those it lacks
Sent(body) ==
  [c \in AlertTypes |-> IF c \in DOMAIN body THEN body[c] ELSE Unallocated]

NoRequest == [c \in AlertTypes |-> Unallocated]

NoResponse ==
  [route |-> "none", status |-> 0, error |-> "none", type |-> "none",
   request |-> NoRequest]

\* an HTTP exchange: the response, and the threshold part of its request
Reply(route, code, message, type, request) ==
  [route |-> route, status |-> code, error |-> message, type |-> type,
   request |-> request]

\* POST /api/alerts/thresholds: the three tests made on one category
PostCheck(obj) ==
  IF ~IsNumber(obj.warning) \/ ~IsNumber(obj.critical)
  THEN "Invalid threshold values"
  ELSE IF obj.warning.n < 0 \/ obj.warning.n > 100
          \/ obj.critical.n < 0 \/ obj.critical.n > 100
  THEN "Invalid threshold range"
  ELSE IF obj.warning.n >= obj.critical.n
  THEN "Invalid threshold order"
  ELSE "ok"

\* mutant: the update is applied before the validation loop runs
Mut_PostThresholdsApplyFirst(body) ==
  LET bad == {c \in DOMAIN body : PostCheck(body[c]) # "ok"}
  IN /\ setThresholds(body, FALSE)
     /\ response' = IF bad # {}
                    THEN Reply("POST thresholds", 400,
                               PostCheck(body[FirstType(bad)]), FirstType(bad),
                               Sent(body))
                    ELSE Reply("POST thresholds", 200, "none", "none", Sent(body))
     /\ UNCHANGED currentConfig

\* POST /api/alerts/thresholds
PostThresholds(body) ==
  LET bad == {c \in DOMAIN body : PostCheck(body[c]) # "ok"}
  IN IF bad # {}
     THEN /\ response' = Reply("POST thresholds", 400,
                               PostCheck(body[FirstType(bad)]), FirstType(bad),
                               Sent(body))
          /\ UNCHANGED <<heap, currentThresholds, held, lastEval, currentConfig>>
     ELSE /\ setThresholds(body, FALSE)
          /\ response' = Reply("POST thresholds", 200, "none", "none", Sent(body))
          /\ UNCHANGED currentConfig

\* POST /api/alerts/thresholds/reset
PostThresholdsReset ==
  /\ resetThresholds(FALSE)
  /\ response' = Reply("POST thresholds/reset", 200, "none", "none", NoRequest)
  /\ UNCHANGED currentConfig

\* PUT /api/settings: the tests made on updates.server
PutServerCheck(server) ==
  IF server.port # Undefined
     /\ (~IsNumber(server.port) \/ server.port.n < 1 \/ server.port.n > 65535)
  THEN "Invalid port value"
  ELSE IF server.updateInterval # Undefined
          /\ (~IsNumber(server.updateInterval) \/ server.updateInterval.n < 500)
  THEN "Invalid update interval"
  ELSE "ok"

\* PUT /api/settings: the tests made on one category of
\* updates.alerts.thresholds
PutCheck(obj) ==
  IF obj.warning # Undefined
     /\ (~IsNumber(obj.warning) \/ obj.warning.n < 0 \/ obj.warning.n > 100)
  THEN "Invalid threshold value"
  ELSE IF obj.critical # Undefined
          /\ (~IsNumber(obj.critical) \/ obj.critical.n < 0 \/ obj.critical.n > 100)
  THEN "Invalid threshold value"
  ELSE IF obj.warning # Undefined /\ obj.critical # Undefined
          /\ obj.warning.n >= obj.critical.n
  THEN "Invalid threshold order"
  ELSE "ok"

\* updateConfig(partial): the fields present are assigned, a category
\* present is spread over the stored one
updateConfig(partial) ==
  [server |->
     [f \in {"port", "updateInterval"} |->
        IF partial.server[f] # Undefined
        THEN partial.server[f] ELSE currentConfig.server[f]],
   alerts |->
     [enabled |-> IF partial.enabled # Undefined
                  THEN partial.enabled ELSE currentConfig.alerts.enabled,
      thresholds |->
        [c \in AlertTypes |->
           IF c \in DOMAIN partial.thresholds
           THEN [f \in Fields |->
                   IF partial.thresholds[c][f] # Undefined
                   THEN partial.thresholds[c][f]
                   ELSE currentConfig.alerts.thresholds[c][f]]
           ELSE currentConfig.alerts.thresholds[c]]]]

\* PUT /api/settings
PutSettings(body) ==
  LET bad == {c \in DOMAIN body.thresholds : PutCheck(body.thresholds[c]) # "ok"}
  IN /\ IF PutServerCheck(body.server) # "ok"
        THEN /\ response' = Reply("PUT settings", 400,
                                  PutServerCheck(body.server), "none",
                                  Sent(body.thresholds))
             /\ UNCHANGED currentConfig
        ELSE IF bad # {}
        THEN /\ response' = Reply("PUT settings", 400,
                                  PutCheck(body.thresholds[FirstType(bad)]),
                                  FirstType(bad), Sent(body.thresholds))
             /\ UNCHANGED currentConfig
        ELSE /\ currentConfig' = updateConfig(body)
             /\ response' = Reply("PUT settings", 200, "none", "none", Sent(body.thresholds))
     /\ UNCHANGED <<heap, currentThresholds, held, lastEval>>

\* POST /api/settings/reset: resetConfig()
PostSettingsReset ==
  /\ currentConfig' = defaultConfig
  /\ response' = Reply("POST settings/reset", 200, "none", "none", NoRequest)
  /\ UNCHANGED <<heap, currentThresholds, held, lastEval>>

RoutesInit ==
  /\ currentConfig = defaultConfig
  /\ response = NoResponse

(***************************************************************************)
(* The durable buffer: the IndexedDB object store 'metrics' (keyPath id,   *)
(* autoIncrement) with its index 'by-timestamp'.  A timestamp is an ISO    *)
(* string the index orders as text, which is the order of time; it is an   *)
(* integer here.  Entries of equal timestamp are ordered by key.  Each     *)
(* function runs in one readwrite transaction, so it is one step.          *)
(***************************************************************************)
MAX_RECORDS == 8640

NoRun == [outcome |-> "none", repeat |-> FALSE, deleted |-> 0, key |-> 0]

\* the index position after which a new record is entered: behind every
\* entry of a timestamp not above its own (its key is the highest)
IndexPos(ts) ==
  Cardinality({i \in 1..Len(byTimestamp) : byTimestamp[i].timestamp <= ts})

\* saveMetricsToIndexedDB(record): store.add succeeded
saveMetricsToIndexedDB(ts) ==
  /\ byTimestamp' =
       SubSeq(byTimestamp, 1, IndexPos(ts))
       \o <<[id |-> nextKey, timestamp |-> ts]>>
       \o SubSeq(byTimestamp, IndexPos(ts) + 1, Len(byTimestamp))
  /\ nextKey' = nextKey + 1
  /\ UNCHANGED lastRun

\* the run this call is: it repeats a completed run when no key has been
\* generated since
RunRecord(deleted) ==
  [outcome |-> "done",
   repeat |-> (lastRun.outcome = "done" /\ lastRun.key = nextKey),
   deleted |-> deleted, key |-> nextKey]

\* mutant: the cursor stops one record early
Mut_enforceMaxRecordsStopsEarly ==
  LET totalCount == Len(byTimestamp)
      deleteCount == totalCount - MAX_RECORDS
  IN /\ IF totalCount > MAX_RECORDS
        THEN /\ byTimestamp' = SubSeq(byTimestamp, deleteCount, totalCount)
             /\ lastRun' = RunRecord(deleteCount - 1)
        ELSE /\ UNCHANGED byTimestamp
             /\ lastRun' = RunRecord(0)
     /\ UNCHANGED nextKey

\* enforceMaxRecords(): count, then a cursor over the index from its first
\* entry that deletes deleteCount entries
enforceMaxRecords ==
  LET totalCount == Len(byTimestamp)
      deleteCount == totalCount - MAX_RECORDS
  IN /\ IF totalCount > MAX_RECORDS
        THEN /\ byTimestamp' = SubSeq(byTimestamp, deleteCount + 1, totalCount)
             /\ lastRun' = RunRecord(deleteCount)
        ELSE /\ UNCHANGED byTimestamp
             /\ lastRun' = RunRecord(0)
     /\ UNCHANGED nextKey

\* enforceMaxRecords(): openDatabase rejects, or the transaction aborts and
\* is rolled back
enforceMaxRecordsFails ==
  /\ lastRun' = [outcome |-> "failed", repeat |-> FALSE, deleted |-> 0,
                 key |-> nextKey]
  /\ UNCHANGED <<byTimestamp, nextKey>>

\* the records n earlier samples left, one per instant
Stored(n) == [i \in 1..n |-> [id |-> i, timestamp |-> i]]

\* a browser profile with no stored record
DbInit ==
  /\ byTimestamp = Stored(0)
  /\ nextKey = 1
  /\ lastRun = NoRun

(***************************************************************************)
(* initPersistence and setPersistenceEnabled.  openDatabase() settles in a *)
(* later task, so each call of initPersistence that gets as far as         *)
(* openDatabase() leaves one promise pending; the environment resolves or  *)
(* rejects it.  cleanupOldRecords and enforceMaxRecords are issued in      *)
(* pairs and counted; what a run does to the object store is modelled by   *)
(* enforceMaxRecords above.                                                *)
(***************************************************************************)
\* the store fields and browser state the persistence actions leave alone
persistRest ==
  <<alerts, metricsHistory, metrics, status, alertThresholds, alertsEnabled,
    connected, error, storedAlerts, permission, promptPending, notifications,
    pendingSaves, nextId, ticks, undismissed, hasIndexedDB>>

initPersistence ==
  /\ inits' = inits + 1
  /\ IF persistenceInitialized
     THEN UNCHANGED <<persistenceEnabled, opensPending>>
     ELSE IF ~hasIndexedDB
     THEN persistenceEnabled' = FALSE /\ UNCHANGED opensPending
     ELSE opensPending' = opensPending + 1 /\ UNCHANGED persistenceEnabled
  /\ UNCHANGED <<persistenceInitialized, cleanupInterval, cleanupRuns,
                 persistRest>>

\* mutant: the cleanup timer is armed although the open failed
Mut_OpenRejectedArmsTimer ==
  /\ opensPending > 0
  /\ opensPending' = opensPending - 1
  /\ persistenceEnabled' = FALSE
  /\ cleanupInterval' = "armed"
  /\ UNCHANGED <<persistenceInitialized, cleanupRuns, inits, persistRest>>

\* openDatabase() rejected: the .catch handler
OpenRejected ==
  /\ opensPending > 0
  /\ opensPending' = opensPending - 1
  /\ persistenceEnabled' = FALSE
  /\ UNCHANGED <<persistenceInitialized, cleanupInterval, cleanupRuns, inits,
                 persistRest>>

\* openDatabase() resolved: the .then handler (clearInterval of an earlier
\* timer, setInterval, and the initial cleanup)
OpenResolved ==
  /\ hasIndexedDB
  /\ opensPending > 0
  /\ opensPending' = opensPending - 1
  /\ persistenceInitialized' = TRUE
  /\ cleanupInterval' = "armed"
  /\ cleanupRuns' = cleanupRuns + 1
  /\ UNCHANGED <<persistenceEnabled, inits, persistRest>>

\* the callback of the 30-minute interval
CleanupTimerFire ==
  /\ cleanupInterval = "armed"
  /\ cleanupRuns' = cleanupRuns + 1
  /\ UNCHANGED <<persistenceEnabled, persistenceInitialized, cleanupInterval,
                 opensPending, inits, persistRest>>

setPersistenceEnabled(enabled) ==
  IF enabled /\ ~persistenceInitialized
  THEN \* set({persistenceEnabled: true}), then get().initPersistence()
       /\ inits' = inits + 1
       /\ IF ~hasIndexedDB
          THEN persistenceEnabled' = FALSE /\ UNCHANGED opensPending
          ELSE persistenceEnabled' = TRUE /\ opensPending' = opensPending + 1
       /\ UNCHANGED <<persistenceInitialized, cleanupInterval, cleanupRuns,
                      persistRest>>
  ELSE /\ persistenceEnabled' = enabled
       /\ UNCHANGED <<persistenceInitialized, cleanupInterval, cleanupRuns,
                      opensPending, inits, persistRest>>

setError(e) ==
  /\ error' = e
  /\ UNCHANGED <<alerts, metricsHistory, metrics, status, alertThresholds,
                 alertsEnabled, persistenceEnabled, connected,
                 persistenceInitialized, storedAlerts, permission,
                 promptPending, notifications, pendingSaves, nextId, ticks,
                 undismissed>>

\* a browser with IndexedDB; initPersistence has not been called
PersistInit ==
  /\ cleanupInterval = "null"
  /\ hasIndexedDB = TRUE
  /\ opensPending = 0
  /\ cleanupRuns = 0
  /\ inits = 0

(***************************************************************************)
(* The useWebSocket hook.  Every WebSocket the hook constructs keeps its   *)
(* four handlers until its close event has been delivered, whether or not  *)
(* wsRef still points at it; the browser delivers the events of a socket   *)
(* and fires the timers in later tasks, in any order.  A slot of wsState   *)
(* is "free" when it holds no such socket.                                 *)
(***************************************************************************)
WS_RECONNECT_DELAY == 3000

Sockets == 1..MaxSockets
Timers == 1..MaxSockets
NoSocket == 0
NoTimer == 0

\* the store fields the hook's handlers leave alone unless a message arrives
wsRest ==
  <<alerts, metricsHistory, metrics, status, alertThresholds, alertsEnabled,
    persistenceEnabled, persistenceInitialized, storedAlerts, permission,
    promptPending, notifications, pendingSaves, nextId, ticks, undismissed>>

\* the sockets that can still deliver an event
Alive == {x \in Sockets : wsState[x] # "free"}

\* the object new WebSocket(...) returns, and the id setTimeout returns
NewSocket == CHOOSE x \in Sockets : wsState[x] = "free" /\ \A y \in Sockets : wsState[y] = "free" => x <= y
NewTimer(pending) ==
  CHOOSE t \in Timers :
    /\ \A x \in pending : x.id # t
    /\ \A u \in Timers : (\A x \in pending : x.id # u) => t <= u

\* window.setTimeout(() => connect(), WS_RECONNECT_DELAY), stored in the ref
setTimeout(pending) ==
  /\ Cardinality(pending) < MaxSockets
  /\ timerPending' = pending \cup {[id |-> NewTimer(pending), delay |-> WS_RECONNECT_DELAY]}
  /\ reconnectTimeoutRef' = NewTimer(pending)

\* connect(), called with the timers `pending` still to fire; `throws` says
\* whether new WebSocket(wsUrl) throws, `by` who called
connect(pending, throws, by) ==
  IF wsRef # NoSocket /\ wsState[wsRef] = "open"
  THEN /\ timerPending' = pending
       /\ UNCHANGED <<wsState, wsRef, reconnectTimeoutRef, attempts, lastAttempt, error>>
  ELSE /\ attempts' = (attempts + 1) % AttemptsMod
       /\ lastAttempt' = by
       /\ IF throws
          THEN /\ error' = "Failed to connect to WebSocket"
               /\ setTimeout(pending)
               /\ UNCHANGED <<wsState, wsRef>>
          ELSE /\ Alive # Sockets
               /\ wsState' = [wsState EXCEPT ![NewSocket] = "connecting"]
               /\ wsRef' = NewSocket
               /\ timerPending' = pending
               /\ UNCHANGED <<reconnectTimeoutRef, error>>

\* ws.onopen of the socket x
onopen(x) ==
  /\ wsState[x] = "connecting"
  /\ wsState' = [wsState EXCEPT ![x] = "open"]
  /\ connected' = TRUE
  /\ error' = NoError
  /\ UNCHANGED <<wsRef, timerPending, reconnectTimeoutRef, attempts,
                 lastAttempt, afterDisconnect, wsRest>>

\* ws.onmessage of the socket x, for a well-formed metrics message
onmessage(x, m) ==
  /\ wsState[x] = "open"
  /\ setMetrics(m)
  /\ UNCHANGED wsVars

\* ws.onerror of the socket x; the browser closes the socket after it
onerror(x) ==
  /\ wsState[x] \in {"connecting", "open"}
  /\ wsState' = [wsState EXCEPT ![x] = "closing"]
  /\ error' = "WebSocket connection error"
  /\ UNCHANGED <<connected, wsRef, timerPending, reconnectTimeoutRef,
                 attempts, lastAttempt, afterDisconnect, wsRest>>

\* mutant: the handler arms no timer
Mut_oncloseNoTimer(x) ==
  /\ wsState[x] # "free"
  /\ wsState' = [wsState EXCEPT ![x] = "free"]
  /\ connected' = FALSE
  /\ wsRef' = NoSocket
  /\ UNCHANGED <<timerPending, reconnectTimeoutRef>>
  /\ UNCHANGED <<error, attempts, lastAttempt, afterDisconnect, wsRest>>

\* ws.onclose of the socket x: the server or the network closed it, or the
\* close that ws.close() or an error started has completed
onclose(x) ==
  /\ wsState[x] # "free"
  /\ wsState' = [wsState EXCEPT ![x] = "free"]
  /\ connected' = FALSE
  /\ wsRef' = NoSocket
  /\ setTimeout(timerPending)
  /\ UNCHANGED <<error, attempts, lastAttempt, afterDisconnect, wsRest>>

\* the callback of a reconnect timer
ReconnectTimer(t) ==
  /\ t \in timerPending
  /\ \E throws \in BOOLEAN : connect(timerPending \ {t}, throws, "timer")
  /\ afterDisconnect' =
       IF afterDisconnect = "quiet" /\ attempts' # attempts
       THEN "attempted" ELSE afterDisconnect
  /\ UNCHANGED <<connected, wsRest>>

\* disconnect()
disconnect ==
  /\ timerPending' = {x \in timerPending : x.id # reconnectTimeoutRef}
  /\ IF wsRef # NoSocket
     THEN /\ wsState' = [wsState EXCEPT ![wsRef] = "closing"]
          /\ wsRef' = NoSocket
     ELSE UNCHANGED <<wsState, wsRef>>
  /\ afterDisconnect' = "quiet"
  /\ UNCHANGED <<reconnectTimeoutRef, attempts, lastAttempt, connected, error,
                 wsRest>>

\* the hook before its effect has run
WsInit ==
  /\ wsState = [x \in Sockets |-> "free"]
  /\ wsRef = NoSocket
  /\ timerPending = {}
  /\ reconnectTimeoutRef = NoTimer
  /\ attempts = 0
  /\ lastAttempt = "none"
  /\ afterDisconnect = "none"

(***************************************************************************)
(* setupWebSocket reads config.server.updateInterval once and hands it to  *)
(* setInterval.                                                            *)
(***************************************************************************)
IntervalInit == updateInterval = defaultConfig.server.updateInterval

(***************************************************************************)
(* services/brain.ts: switchBrain and its in-memory history.  An entry's   *)
(* timestamp is rendered by the number of entries pushed before it.        *)
(* scriptOk says whether switch.sh succeeds, fileOk whether the status     *)
(* file can be written.                                                    *)
(***************************************************************************)
BrainModes == {"code", "vision"}

\* the length above which switchBrain shifts the history
SWITCH_HISTORY_LIMIT == 100

BrainSwitchResult(success, previous, current) ==
  [success |-> success, previous |-> previous, current |-> current]

BrainHistoryEntry(previous, target) ==
  [timestamp |-> switches + 1, from |-> previous, to |-> target]

switchBrain(target, scriptOk, fileOk) ==
  LET previous == activeBrain
      pushed == Append(switchHistory, BrainHistoryEntry(previous, target))
  IN IF previous = target
     THEN /\ lastResult' = BrainSwitchResult(TRUE, previous, target)
          /\ UNCHANGED <<switchHistory, activeBrain, switches>>
     ELSE IF scriptOk
     THEN \* switch.sh ran: push, then shift when over the limit
          /\ switchHistory' = IF Len(pushed) > SWITCH_HISTORY_LIMIT
                              THEN Tail(pushed) ELSE pushed
          /\ activeBrain' = target
          /\ switches' = switches + 1
          /\ lastResult' = BrainSwitchResult(TRUE, previous, target)
     ELSE IF fileOk
     THEN \* switch.sh failed, the status file was written: push
          /\ switchHistory' = pushed
          /\ activeBrain' = target
          /\ switches' = switches + 1
          /\ lastResult' = BrainSwitchResult(TRUE, previous, target)
     ELSE /\ lastResult' = BrainSwitchResult(FALSE, previous, previous)
          /\ UNCHANGED <<switchHistory, activeBrain, switches>>

\* getBrainHistory(): a reversed copy
RECURSIVE Reverse(_)
Reverse(q) == IF q = <<>> THEN <<>> ELSE Append(Reverse(Tail(q)), Head(q))

getBrainHistory == Reverse(switchHistory)

BrainInit ==
  /\ switchHistory = <<>>
  /\ activeBrain = "code"
  /\ switches = 0
  /\ lastResult = BrainSwitchResult(TRUE, "code", "code")

Init ==
  /\ StoreInit /\ ServerInit /\ ThresholdInit /\ RoutesInit /\ DbInit
  /\ PersistInit /\ WsInit /\ IntervalInit /\ BrainInit

ServerSpec == Init /\ [][ServerNext]_vars

(***************************************************************************)
(* The callers of the alerts service: code that imports getThresholds,     *)
(* setThresholds, resetThresholds and checkAlerts and keeps the value it   *)
(* got back.                                                               *)
(***************************************************************************)
\* a complete category object, and one that carries a warning only
UpdateObjects ==
  {[warning |-> Num(70), critical |-> Num(85)],
   [warning |-> Num(70), critical |-> Undefined]}

ServiceUpdates == UNION {[D -> UpdateObjects] : D \in {{"cpu"}, {"memory"}}}

\* snapshots around the thresholds 70, 80, 85 and 90, with and without GPU
ServerSnapshots ==
  {[timestamp |-> 1, cpu |-> c, memory |-> r.memory, gpu |-> r.gpu] :
     c \in {69, 70, 79, 80, 84, 85, 89, 90},
     r \in {[memory |-> 50, gpu |-> NoGpu], [memory |-> 95, gpu |-> NoGpu],
            [memory |-> 95, gpu |-> Gpu(40, 80)]}}

ServiceFrame ==
  /\ UNCHANGED <<currentConfig, response>>
  /\ UNCHANGED <<storeVars, serverVars, dbVars, extVars>>

GetCall == held # currentThresholds /\ getThresholds /\ ServiceFrame

SetCall ==
  /\ \E update \in ServiceUpdates :
       setThresholds(update, TRUE)
  /\ ServiceFrame

ResetCall ==
  /\ currentThresholds # DefaultRef
  /\ resetThresholds(TRUE)
  /\ ServiceFrame

Mutate ==
  /\ \E f \in Fields : MutateReturned("cpu", f, Num(5))
  /\ ServiceFrame

Check == (\E m \in ServerSnapshots : Evaluate(m)) /\ ServiceFrame

ServiceNext == GetCall \/ SetCall \/ ResetCall \/ Mutate \/ Check

ServiceSpec == Init /\ [][ServiceNext]_vars

(***************************************************************************)
(* The HTTP clients of the update routes.                                  *)
(***************************************************************************)
\* category objects of a request: valid, warning above critical, out of
\* range, non-numeric, and a lone warning
BodyObjects ==
  {[warning |-> Num(70), critical |-> Num(85)],
   [warning |-> Num(90), critical |-> Num(80)],
   [warning |-> Num(50), critical |-> Num(150)],
   [warning |-> NotNumeric, critical |-> Num(85)],
   [warning |-> Num(95), critical |-> Undefined]}

ThresholdBodies ==
  UNION {[D -> BodyObjects] : D \in {{"cpu"}, {"memory"}, {"cpu", "memory"}}}

SettingsBodies ==
  [server : {[port |-> Undefined, updateInterval |-> u] :
               u \in {Undefined, Num(400), Num(5000)}},
   enabled : {Undefined},
   thresholds : ThresholdBodies]

RoutesFrame == UNCHANGED <<storeVars, serverVars, dbVars, extVars>>

Post == (\E body \in ThresholdBodies : PostThresholds(body)) /\ RoutesFrame

PostReset == PostThresholdsReset /\ RoutesFrame

Put == (\E body \in SettingsBodies : PutSettings(body)) /\ RoutesFrame

SettingsReset == PostSettingsReset /\ RoutesFrame

RoutesNext == Post \/ PostReset \/ Put \/ SettingsReset

RoutesSpec == Init /\ [][RoutesNext]_vars

(***************************************************************************)
(* The durable buffer over a browser profile that earlier sessions (the    *)
(* earlier revision kept up to 43200 records) have filled.                 *)
(***************************************************************************)
StoredCounts == {MAX_RECORDS - 1, MAX_RECORDS, MAX_RECORDS + 2}

DbLoaded ==
  /\ \E n \in StoredCounts : byTimestamp = Stored(n) /\ nextKey = n + 1
  /\ lastRun = NoRun

DbFrame == UNCHANGED <<storeVars, serverVars, thVars, extVars>>

\* a sample arrives, stamped now or (a late message) before every record
DbAppend ==
  /\ nextKey <= MAX_RECORDS + MaxAppends
  /\ \E ts \in {0, nextKey} : saveMetricsToIndexedDB(ts)
  /\ DbFrame

DbEnforce == enforceMaxRecords /\ DbFrame

DbEnforceFails == lastRun.outcome # "failed" /\ enforceMaxRecordsFails /\ DbFrame

DbNext == DbAppend \/ DbEnforce \/ DbEnforceFails

DbSpecInit ==
  /\ StoreInit /\ ServerInit /\ ThresholdInit /\ RoutesInit /\ DbLoaded
  /\ PersistInit /\ WsInit /\ IntervalInit /\ BrainInit

DbSpec == DbSpecInit /\ [][DbNext]_vars

(***************************************************************************)
(* The general store environment: every operation, small inputs.           *)
(***************************************************************************)
\* a quiet host, and a host with a GPU above the cpu critical, the memory
\* warning and the GPU temperature warning thresholds
Quiet(t) == [timestamp |-> t, cpu |-> 50, memory |-> 50, gpu |-> NoGpu]
Loaded(t) == [timestamp |-> t, cpu |-> 95, memory |-> 85, gpu |-> Gpu(40, 80)]
Snapshots(t) == {Quiet(t), Loaded(t)}

StatusInputs == {[loaded |-> TRUE, disk |-> <<40, 96>>]}
ThresholdInputs ==
  {[DEFAULT_THRESHOLDS EXCEPT !.cpu = [warning |-> 40, critical |-> 60]]}

\* an alert built by a caller of addAlert, with a freshly generated id
CallerAlerts(id) ==
  [id : {id}, type : {"cpu", "disk"}, severity : {"critical"}, value : {95},
   threshold : {90}, dismissed : {FALSE}]

Tick ==
  /\ ticks < MaxTicks
  /\ ticks' = ticks + 1
  /\ \E m \in Snapshots(ticks + 1) : setMetrics(m)
  /\ nextId' <= MaxIds + 1
  /\ UNCHANGED <<serverVars, thVars, dbVars, extVars>>

Status ==
  /\ \E st \in StatusInputs : status # st /\ setStatus(st)
  /\ UNCHANGED <<serverVars, thVars, dbVars, extVars>>

Add ==
  /\ nextId <= MaxIds
  /\ nextId' = nextId + 1
  /\ \E a \in CallerAlerts(nextId) : addAlert(a)
  /\ UNCHANGED <<serverVars, thVars, dbVars, extVars>>

Dismiss ==
  /\ \E i \in 1..Len(alerts) : dismissAlert(alerts[i].id)
  /\ UNCHANGED <<serverVars, thVars, dbVars, extVars>>

Clear == alerts # <<>> /\ clearAlerts /\ UNCHANGED <<serverVars, thVars, dbVars, extVars>>

Thresholds ==
  /\ \E th \in ThresholdInputs : alertThresholds # th /\ setAlertThresholds(th)
  /\ UNCHANGED <<serverVars, thVars, dbVars, extVars>>

Enable ==
  /\ \E b \in BOOLEAN : alertsEnabled # b /\ setAlertsEnabled(b)
  /\ UNCHANGED <<serverVars, thVars, dbVars, extVars>>

Answer ==
  /\ \E answer \in {"granted", "denied"} : PermissionAnswer(answer)
  /\ UNCHANGED <<serverVars, thVars, dbVars, extVars>>

StoreNext ==
  Tick \/ Status \/ Add \/ Dismiss \/ Clear \/ Thresholds \/ Enable \/ Answer

StoreSpec == Init /\ [][StoreNext]_vars

(***************************************************************************)
(* The flood environment: the cpu and the memory category stay in breach   *)
(* on every snapshot, and only memory alerts are dismissed; each dismissal *)
(* lets the next snapshot append one more alert, up to and past            *)
(* MAX_ALERTS.                                                             *)
(***************************************************************************)
Hot(t) == [timestamp |-> t, cpu |-> 95, memory |-> 95, gpu |-> NoGpu]

FloodTick ==
  /\ ticks < MaxFloodTicks
  /\ ticks' = ticks + 1
  /\ setMetrics(Hot(ticks + 1))
  /\ UNCHANGED <<serverVars, thVars, dbVars, extVars>>

FloodDismiss ==
  \E i \in 1..Len(alerts) :
    /\ alerts[i].type = "memory"
    /\ ~alerts[i].dismissed
    /\ dismissAlert(alerts[i].id)
    /\ UNCHANGED <<serverVars, thVars, dbVars, extVars>>

FloodNext == FloodTick \/ FloodDismiss

FloodSpec == Init /\ [][FloodNext]_vars

(***************************************************************************)
(* Vocabulary of the store properties.                                     *)
(***************************************************************************)
\* positions of the non-dismissed alerts of a category
Active(list, type) ==
  {i \in 1..Len(list) : list[i].type = type /\ ~list[i].dismissed}

\* positions of all alerts of a category
OfType(list, type) == {i \in 1..Len(list) : list[i].type = type}

\* the step is a setMetrics call
IsTick == ticks' = ticks + 1

\* the snapshot m breaches the category under the current settings
Breaches(m, type) ==
  \E i \in 1..Len(Observed(m, status)) :
    /\ Observed(m, status)[i].type = type
    /\ Observed(m, status)[i].value >= alertThresholds[type].warning

\* positions, in the new list, of the alerts a step created for a category
CreatedFor(type) ==
  {i \in 1..Len(alerts') : alerts'[i].type = type /\ alerts'[i].id >= nextId}

(***************************************************************************)
(* C1: in every state reachable from the empty alert list by setMetrics,   *)
(* addAlert, dismissAlert and clearAlerts (and the settings actions),      *)
(* each category has at most one non-dismissed Alert.                      *)
(***************************************************************************)
C1_OneActivePerCategory ==
  \A type \in AlertTypes : Cardinality(Active(alerts, type)) <= 1

\* a cpu alert was dismissed, cpu breached again and got a second alert,
\* and a further breaching snapshot has arrived since
C1_Witness ==
  /\ \E i, j \in 1..Len(alerts) :
       /\ i < j
       /\ alerts[i].type = "cpu" /\ alerts[i].dismissed
       /\ alerts[j].type = "cpu" /\ ~alerts[j].dismissed
  /\ ticks = 3
  /\ metrics.cpu >= alertThresholds.cpu.warning
  /\ alertsEnabled

(***************************************************************************)
(* C2 (as claimed): while a category stays in breach, no additional Alert  *)
(* is created for it until the existing one is dismissed, i.e. a category  *)
(* never has two created Alerts that both still await dismissal.           *)
(***************************************************************************)
C2_AsClaimed ==
  \A type \in AlertTypes :
    Cardinality({u \in undismissed : u.type = type}) <= 1

(***************************************************************************)
(* C2 (amended): on a snapshot that breaches a category, setMetrics        *)
(* creates no Alert for it while a non-dismissed Alert of that category is *)
(* in the list, and creates exactly one (non-dismissed, the only active    *)
(* one afterwards) when the list holds none -- which is the case after a   *)
(* dismissal and also after the MAX_ALERTS cap has dropped the Alert.      *)
(***************************************************************************)
C2_DedupWhileListed ==
  [][\A type \in AlertTypes :
       (IsTick /\ alertsEnabled /\ Breaches(metrics', type)) =>
         IF Active(alerts, type) # {}
         THEN CreatedFor(type) = {}
         ELSE /\ Cardinality(CreatedFor(type)) = 1
              /\ Active(alerts', type) = CreatedFor(type)]_vars

\* the cap has dropped the first cpu Alert, never dismissed, and the next
\* snapshot has created a second one
C2_Witness ==
  /\ Len(alerts) = MAX_ALERTS
  /\ Cardinality({u \in undismissed : u.type = "cpu"}) = 2
  /\ Cardinality(Active(alerts, "cpu")) = 1
  /\ \E i \in 1..Len(alerts) : alerts[i].type = "memory" /\ alerts[i].dismissed

IsBroadcast == TickBroadcast \/ \E f \in Conns : TickBroadcastThrows(f)

(***************************************************************************)
(* C4 (as claimed): the broadcast loop never has two ticks in progress at  *)
(* once: at most one interval callback is between its start and the end of *)
(* its collect-evaluate-send sequence.                                     *)
(***************************************************************************)
C4_AsClaimed == ticksInFlight <= 1

(***************************************************************************)
(* C5 (as claimed): when the send to one subscriber throws during a        *)
(* broadcast, every other open subscriber still gets the message, the      *)
(* failure does not leave the tick (the process keeps running) and the     *)
(* failing subscriber is removed from the registry.                        *)
(***************************************************************************)
C5_AsClaimed ==
  [][\A f \in Conns :
       TickBroadcastThrows(f) =>
         /\ processAlive'
         /\ f \notin Range(clients')
         /\ \A c \in Range(clients) \ {f} :
              readyState[c] = "OPEN" => \E call \in lastSends' : call.to = c /\ call.ok]_vars

(***************************************************************************)
(* C6 (as claimed): once the wss close handler has cleared the interval,   *)
(* no metrics collection starts and no tick message is sent any more.      *)
(***************************************************************************)
C6_AsClaimed ==
  [][intervalId = "cleared" =>
       /\ ticksInFlight' <= ticksInFlight
       /\ ~(IsBroadcast /\ lastSends' # {})]_vars

(***************************************************************************)
(* C7 (as claimed): a collectMetrics rejection on a tick leaves the        *)
(* process running and the timer as it was.                                *)
(***************************************************************************)
C7_AsClaimed ==
  [][TickCollectFail => processAlive' /\ intervalId' = intervalId]_vars

(***************************************************************************)
(* C8: an interval callback that fires while the registry is empty starts  *)
(* no collectMetrics call (neither a tick's nor an initial one) and makes  *)
(* no send.                                                                *)
(***************************************************************************)
C8_IdleTickDoesNothing ==
  [][(TimerFire /\ Len(clients) = 0) =>
       /\ ticksInFlight' = ticksInFlight
       /\ initJobs' = initJobs
       /\ lastSends' = lastSends
       /\ lastTick' = "skipped"]_vars

\* the registry emptied after a subscriber had been served, and the latest
\* interval callback returned at once
C8_Witness ==
  /\ lastTick = "skipped"
  /\ Len(clients) = 0
  /\ ticksInFlight = 0
  /\ intervalId = "armed"
  /\ \E c \in Conns : readyState[c] = "CLOSED"
  /\ \E call \in lastSends : call.kind = "tick"

(***************************************************************************)
(* C9: accepting a connection starts its sendMetrics cycle in the same     *)
(* handler, whatever the timer does; when that cycle's collection          *)
(* resolves, ws.send is called once, on the new connection and on no       *)
(* other, and on an open connection the call is made in the OPEN state.    *)
(***************************************************************************)
C9_InitialSendToNewSubscriberOnly ==
  [][\A c \in Conns :
       /\ Connect(c) =>
            /\ c \in initJobs' \ initJobs
            /\ lastSends' = lastSends
       /\ InitCollectOk(c) =>
            /\ Cardinality(lastSends') = 1
            /\ \A call \in lastSends' :
                 /\ call.to = c
                 /\ call.kind = "init"
                 /\ call.state = readyState[c]]_vars

\* two open subscribers, no interval callback has fired yet, and the
\* latest message is an initial one delivered to one of them alone
C9_Witness ==
  /\ lastTick = "none"
  /\ \E c, d \in Conns :
       /\ c # d
       /\ readyState[c] = "OPEN" /\ readyState[d] = "OPEN"
       /\ {c, d} \subseteq Range(clients)
       /\ c \notin initJobs
       /\ lastSends = {[to |-> c, kind |-> "init", state |-> "OPEN", ok |-> TRUE]}

(***************************************************************************)
(* C10 (as claimed): every ws.send call, of the periodic broadcast and of  *)
(* the initial send alike, is made on a connection that is OPEN at that    *)
(* moment.                                                                 *)
(***************************************************************************)
C10_AsClaimed == \A call \in lastSends : call.state = "OPEN"

(***************************************************************************)
(* Vocabulary of the evaluator properties.                                 *)
(***************************************************************************)
\* positions of the events of a category in a checkAlerts result
EventsOf(result, c) == {i \in 1..Len(result) : result[i].type = c}

\* a category object with warning < critical, both numbers
WellFormed(th) ==
  IsNumber(th.warning) /\ IsNumber(th.critical) /\ th.warning.n < th.critical.n

\* the categories of a snapshot that carry a value for the server evaluator
Carries(m, c) ==
  CASE c = "cpu" -> TRUE
    [] c = "memory" -> TRUE
    [] c = "gpu_temp" -> m.gpu.present /\ m.gpu.temperature # NULL
    [] OTHER -> FALSE

ValueOf(m, c) ==
  CASE c = "cpu" -> m.cpu
    [] c = "memory" -> m.memory
    [] OTHER -> m.gpu.temperature

(***************************************************************************)
(* C11: in the result of every checkAlerts call, each category whose       *)
(* thresholds satisfy warning < critical and whose value v is present has  *)
(* exactly one event, critical with threshold = critical, when             *)
(* v >= critical; exactly one, warning with threshold = warning, when      *)
(* warning <= v < critical; and none when v < warning.                     *)
(***************************************************************************)
C11_OneEventByLadder ==
  lastEval.called =>
    \A c \in AlertTypes :
      LET th == lastEval.thresholds[c]
          m == lastEval.metrics
          ev == EventsOf(lastEval.alerts, c)
      IN (Carries(m, c) /\ WellFormed(th)) =>
           IF ValueOf(m, c) >= th.critical.n
           THEN /\ Cardinality(ev) = 1
                /\ \A i \in ev :
                     /\ lastEval.alerts[i].severity = "critical"
                     /\ lastEval.alerts[i].threshold = th.critical
                     /\ lastEval.alerts[i].value = ValueOf(m, c)
           ELSE IF ValueOf(m, c) >= th.warning.n
           THEN /\ Cardinality(ev) = 1
                /\ \A i \in ev :
                     /\ lastEval.alerts[i].severity = "warning"
                     /\ lastEval.alerts[i].threshold = th.warning
                     /\ lastEval.alerts[i].value = ValueOf(m, c)
           ELSE ev = {}

\* after setThresholds moved cpu to 70/85, a cpu value equal to the new
\* critical got one critical event, next to a GPU temperature warning
C11_Witness ==
  /\ lastEval.called
  /\ lastEval.thresholds.cpu = [warning |-> Num(70), critical |-> Num(85)]
  /\ lastEval.metrics.cpu = 85
  /\ \E i \in 1..Len(lastEval.alerts) :
       lastEval.alerts[i] = [type |-> "cpu", severity |-> "critical",
                             value |-> 85, threshold |-> Num(85)]
  /\ \E i \in 1..Len(lastEval.alerts) :
       lastEval.alerts[i] = [type |-> "gpu_temp", severity |-> "warning",
                             value |-> 80, threshold |-> Num(75)]

(***************************************************************************)
(* C12: for a snapshot with gpu = null the server evaluator returns no     *)
(* gpu_temp event and still evaluates cpu and memory (a value at or above  *)
(* the category's warning threshold has its event); the client evaluator   *)
(* creates no gpu_temp alert for such a snapshot either.                   *)
(***************************************************************************)
C12_NoGpuNoGpuTempEvent ==
  /\ (lastEval.called /\ ~lastEval.metrics.gpu.present) =>
       /\ EventsOf(lastEval.alerts, "gpu_temp") = {}
       /\ \A c \in {"cpu", "memory"} :
            ReachedBy(ValueOf(lastEval.metrics, c), lastEval.thresholds[c].warning)
              => EventsOf(lastEval.alerts, c) # {}
  /\ \A m \in {Quiet(1), Hot(1)} :
       LET created == checkThresholdsAndCreateAlerts(m, status, alertThresholds, <<>>)
       IN /\ \A i \in 1..Len(created) : created[i].type # "gpu_temp"
          /\ Len(created) = IF m = Hot(1) THEN 2 ELSE 0

\* a checkAlerts call on a snapshot without GPU whose cpu and memory are
\* both critical returned exactly those two events
C12_Witness ==
  /\ lastEval.called
  /\ ~lastEval.metrics.gpu.present
  /\ lastEval.metrics.cpu = 90
  /\ lastEval.metrics.memory = 95
  /\ Len(lastEval.alerts) = 2
  /\ lastEval.alerts[1].type = "cpu"
  /\ lastEval.alerts[2].type = "memory"

C15_DisabledSkipsAlerts ==
  [][(IsTick /\ ~alertsEnabled) =>
       /\ alerts' = alerts
       /\ storedAlerts' = storedAlerts
       /\ notifications' = notifications
       /\ nextId' = nextId
       /\ Len(metricsHistory') = Len(metricsHistory) + 1
       /\ metricsHistory'[Len(metricsHistory')].timestamp = metrics'.timestamp
       /\ metricsHistory'[Len(metricsHistory')].cpu = metrics'.cpu]_vars

\* alerts are off, permission is granted, a snapshot with cpu at 95 has
\* been stored, and no alert id was ever consumed
C15_Witness ==
  /\ ~alertsEnabled
  /\ permission = "granted"
  /\ ticks >= 1
  /\ metrics.cpu = 95
  /\ Len(metricsHistory) = ticks
  /\ nextId = 1
  /\ alerts = <<>>
  /\ storedAlerts = <<>>
  /\ notifications = {}

(***************************************************************************)
(* Vocabulary of the threshold store properties.                           *)
(***************************************************************************)
\* what the alerts service holds for a category, now and after the step
StoredNow(c) == heap[currentThresholds[c]]
StoredNext(c) == heap'[currentThresholds'[c]]

\* the step changes no stored threshold, of the service or of the config
StoresUnchanged ==
  /\ \A c \in AlertTypes : StoredNext(c) = StoredNow(c)
  /\ currentConfig' = currentConfig

\* 0 <= warning < critical <= 100
InOrder(th) ==
  /\ IsNumber(th.warning) /\ IsNumber(th.critical)
  /\ 0 <= th.warning.n /\ th.warning.n < th.critical.n /\ th.critical.n <= 100

\* a category object that is invalid whatever is stored: a non-numeric
\* field, a number outside [0,100], or warning >= critical
InvalidObject(obj) ==
  \/ \E f \in Fields : obj[f] = NotNumeric
  \/ \E f \in Fields : IsNumber(obj[f]) /\ (obj[f].n < 0 \/ obj[f].n > 100)
  \/ IsNumber(obj.warning) /\ IsNumber(obj.critical) /\ obj.warning.n >= obj.critical.n

(***************************************************************************)
(* C16 (as claimed): setThresholds merges field by field: after the call   *)
(* a field the update supplies has the supplied value, and every other     *)
(* field, of a category mentioned or not, has its prior value.             *)
(***************************************************************************)
C16_AsClaimed ==
  [][\A update \in ServiceUpdates :
       setThresholds(update, TRUE) =>
         \A c \in AlertTypes : \A f \in Fields :
           StoredNext(c)[f] =
             IF c \in DOMAIN update /\ update[c][f] # Undefined
             THEN update[c][f] ELSE StoredNow(c)[f]]_vars

(***************************************************************************)
(* C17 (as claimed): assigning a field of a category object of the value   *)
(* getThresholds (or setThresholds, resetThresholds) returned changes      *)
(* neither the thresholds the service holds nor the built-in defaults.     *)
(***************************************************************************)
C17_AsClaimed ==
  [][(\E f \in Fields : MutateReturned("cpu", f, Num(5))) =>
       /\ \A c \in AlertTypes : StoredNext(c) = StoredNow(c)
       /\ \A c \in AlertTypes : heap'[DefaultRef[c]] = heap[DefaultRef[c]]]_vars

(***************************************************************************)
(* C18: a POST /api/alerts/thresholds or PUT /api/settings request with an *)
(* invalid category (non-numeric field, value outside [0,100], or          *)
(* warning >= critical) is answered 400, and a request answered 400        *)
(* changes no stored threshold of any category, those of the same request  *)
(* that are valid included.                                                *)
(***************************************************************************)
C18_RejectedWholesale ==
  [][/\ (/\ response'.route \in {"POST thresholds", "PUT settings"}
         /\ \E c \in AlertTypes : InvalidObject(response'.request[c]))
          => response'.status = 400
     /\ response'.status = 400 => StoresUnchanged]_vars

\* after an accepted update of memory, a request with a valid cpu and an
\* invalid memory was rejected for memory: cpu still has its default and
\* memory the accepted values
C18_Witness ==
  /\ response.route = "POST thresholds"
  /\ response.status = 400
  /\ response.type = "memory"
  /\ response.error = "Invalid threshold order"
  /\ response.request.cpu = [warning |-> Num(70), critical |-> Num(85)]
  /\ response.request.memory = [warning |-> Num(90), critical |-> Num(80)]
  /\ heap[currentThresholds.cpu] = DefaultValues.cpu
  /\ heap[currentThresholds.memory] = [warning |-> Num(70), critical |-> Num(85)]

(***************************************************************************)
(* C19 (as claimed): every category stored by the alerts service and by    *)
(* the config satisfies 0 <= warning < critical <= 100 in every state the  *)
(* update and reset routes can reach from the defaults.                    *)
(***************************************************************************)
C19_AsClaimed ==
  \A c \in AlertTypes :
    InOrder(heap[currentThresholds[c]]) /\ InOrder(currentConfig.alerts.thresholds[c])

(***************************************************************************)
(* C20: a completed enforceMaxRecords run leaves at most MAX_RECORDS       *)
(* records; it deletes exactly count - MAX_RECORDS records when the count  *)
(* is above the cap and none otherwise; no record it deletes has a         *)
(* timestamp above that of a record it keeps, and the records kept stay    *)
(* in order; a run that follows a completed run with no append in between  *)
(* deletes nothing.                                                        *)
(***************************************************************************)
C20_EvictsOldestDownToCap ==
  [][enforceMaxRecords =>
       LET n == Len(byTimestamp) - Len(byTimestamp')
       IN /\ Len(byTimestamp') <= MAX_RECORDS
          /\ n = (IF Len(byTimestamp) > MAX_RECORDS
                  THEN Len(byTimestamp) - MAX_RECORDS ELSE 0)
          /\ \A j \in 1..Len(byTimestamp') : byTimestamp'[j] = byTimestamp[j + n]
          /\ \A i \in 1..n : \A j \in 1..Len(byTimestamp') :
               byTimestamp[i].timestamp <= byTimestamp'[j].timestamp
          /\ (lastRun.outcome = "done" /\ lastRun.key = nextKey)
               => byTimestamp' = byTimestamp]_vars

\* a full buffer got a late sample, a run evicted it rather than the first
\* record stored, and the run was repeated at once
C20_Witness ==
  /\ lastRun.outcome = "done"
  /\ lastRun.repeat
  /\ lastRun.deleted = 0
  /\ Len(byTimestamp) = MAX_RECORDS
  /\ nextKey = MAX_RECORDS + 2
  /\ byTimestamp[1] = [id |-> 1, timestamp |-> 1]

(***************************************************************************)
(* C21: a step builds a native notification for exactly the Alerts it      *)
(* creates (by setMetrics or addAlert) that are critical, and only while   *)
(* Notification.permission is "granted": one per such Alert, none for a    *)
(* warning Alert, none for a breach that createAlert suppresses, none      *)
(* while the permission is "default" or "denied"; and no notification      *)
(* already built is taken back.                                            *)
(***************************************************************************)
\* positions, in the new list, of the alerts the step created
Created == {i \in 1..Len(alerts') : alerts'[i].id >= nextId}

C21_NotifiesNewCriticalWhenGranted ==
  [][LET due == {alerts'[i].id :
                   i \in {j \in Created : /\ alerts'[j].severity = "critical"
                                          /\ permission = "granted"}}
     IN /\ notifications \subseteq notifications'
        /\ notifications' \ notifications = due
        /\ Cardinality(notifications' \ notifications) =
             Cardinality({j \in Created : /\ alerts'[j].severity = "critical"
                                          /\ permission = "granted"})]_vars

\* with the permission granted, one snapshot has created a critical Alert
\* that was notified and a warning Alert that was not, next to a critical
\* Alert created before the permission was granted and never notified
C21_Witness ==
  /\ permission = "granted"
  /\ \E i, j, k \in 1..Len(alerts) :
       /\ alerts[i].severity = "critical" /\ alerts[i].id \in notifications
       /\ alerts[j].severity = "warning" /\ alerts[j].id \notin notifications
       /\ alerts[k].severity = "critical" /\ alerts[k].id \notin notifications
  /\ Cardinality(notifications) = 1

(***************************************************************************)
(* The cap environment: the store is created over the alert list an        *)
(* earlier session left in localStorage, one or no alert short of          *)
(* MAX_ALERTS; its oldest alert (a disk alert) was never dismissed, all    *)
(* later ones were.  Every alert operation is then available.              *)
(***************************************************************************)
LoadedAlerts(n) ==
  [i \in 1..n |->
     [id |-> i,
      type |-> IF i = 1 THEN "disk" ELSE IF i % 2 = 0 THEN "cpu" ELSE "memory",
      severity |-> "critical", value |-> 96, threshold |-> 95,
      dismissed |-> (i # 1)]]

CapLoads == {MAX_ALERTS - 1, MAX_ALERTS}

CapStoreInit ==
  \E n \in CapLoads :
    /\ alerts = LoadedAlerts(n)
    /\ storedAlerts = LoadedAlerts(n)
    /\ nextId = n + 1
    /\ undismissed = {[id |-> 1, type |-> "disk", severity |-> "critical"]}
    /\ metricsHistory = <<>>
    /\ metrics = NoMetrics
    /\ status = NoStatus
    /\ alertThresholds = DEFAULT_THRESHOLDS
    /\ alertsEnabled = TRUE
    /\ persistenceEnabled = TRUE
    /\ connected = FALSE
    /\ error = NoError
    /\ persistenceInitialized = FALSE
    /\ permission = "default"
    /\ promptPending = TRUE
    /\ notifications = {}
    /\ pendingSaves = <<>>
    /\ ticks = 0

CapTick ==
  /\ ticks < MaxCapTicks
  /\ ticks' = ticks + 1
  /\ \E m \in {Quiet(ticks + 1), Hot(ticks + 1)} : setMetrics(m)
  /\ UNCHANGED <<serverVars, thVars, dbVars, extVars>>

CapAdd ==
  /\ nextId <= MAX_ALERTS + MaxCapIds
  /\ nextId' = nextId + 1
  /\ \E a \in CallerAlerts(nextId) : addAlert(a)
  /\ UNCHANGED <<serverVars, thVars, dbVars, extVars>>

CapDismiss ==
  /\ \E i \in 1..Len(alerts) : ~alerts[i].dismissed /\ dismissAlert(alerts[i].id)
  /\ UNCHANGED <<serverVars, thVars, dbVars, extVars>>

CapClear ==
  alerts # <<>> /\ clearAlerts /\ UNCHANGED <<serverVars, thVars, dbVars, extVars>>

CapNext == CapTick \/ CapAdd \/ CapDismiss \/ CapClear

CapInit ==
  /\ CapStoreInit /\ ServerInit /\ ThresholdInit /\ RoutesInit /\ DbInit
  /\ PersistInit /\ WsInit /\ IntervalInit /\ BrainInit

CapSpec == CapInit /\ [][CapNext]_vars

(***************************************************************************)
(* C22: after every step the alert list holds at most MAX_ALERTS alerts    *)
(* in creation order (ids ascend), and every step other than clearAlerts   *)
(* leaves                                                                  *)
(* the list equal to the last MAX_ALERTS of the old list followed by the   *)
(* alerts the step created, whatever the dismissed flags are -- so what is *)
(* dropped is always the oldest part of the list.                          *)
(***************************************************************************)
IdsOf(list) == [i \in 1..Len(list) |-> list[i].id]

\* the ids of the alerts the step created, in creation order
CreatedIds ==
  [k \in 1..Cardinality(undismissed' \ undismissed) |-> nextId + k - 1]

C22_CappedToMostRecent ==
  [][/\ Len(alerts') <= MAX_ALERTS
     /\ \A i, j \in 1..Len(alerts') : i < j => alerts'[i].id < alerts'[j].id
     /\ \/ alerts' = <<>> /\ undismissed' = {}
        \/ IdsOf(alerts') = SliceLast(IdsOf(alerts) \o CreatedIds, MAX_ALERTS)]_vars

\* the list is full; its oldest alert, never dismissed, has been dropped
\* while dismissed alerts older than the newest ones are still listed
C22_Witness ==
  /\ Len(alerts) = MAX_ALERTS
  /\ alerts[1].id > 1
  /\ alerts[1].dismissed
  /\ \E u \in undismissed : u.id = 1
  /\ ~alerts[MAX_ALERTS].dismissed

(***************************************************************************)
(* The persistence environment: the application calls initPersistence and  *)
(* setPersistenceEnabled, the browser settles the pending opens and fires  *)
(* the cleanup timer, snapshots arrive, and the connection layer sets the  *)
(* store's error field.  The browser has IndexedDB or has not.             *)
(***************************************************************************)
PersistFrame == UNCHANGED <<serverVars, thVars, dbVars, wsVars, updateInterval, brainVars>>

PersistCall == inits < MaxInits /\ initPersistence /\ PersistFrame

PersistOpenFails == OpenRejected /\ PersistFrame

PersistOpenSucceeds == OpenResolved /\ PersistFrame

PersistCleanup == cleanupRuns < MaxCleanups /\ CleanupTimerFire /\ PersistFrame

PersistToggle ==
  /\ inits < MaxInits
  /\ \E enabled \in BOOLEAN : setPersistenceEnabled(enabled)
  /\ PersistFrame

PersistTick ==
  /\ ticks < MaxTicks
  /\ ticks' = ticks + 1
  /\ \E m \in Snapshots(ticks + 1) : setMetrics(m)
  /\ UNCHANGED <<serverVars, thVars, dbVars, extVars>>

PersistError ==
  /\ error = NoError
  /\ setError("WebSocket connection error")
  /\ UNCHANGED <<serverVars, thVars, dbVars, extVars>>

PersistNext ==
  \/ PersistCall \/ PersistOpenFails \/ PersistOpenSucceeds \/ PersistCleanup
  \/ PersistToggle \/ PersistTick \/ PersistError

PersistSpecInit ==
  /\ StoreInit /\ ServerInit /\ ThresholdInit /\ RoutesInit /\ DbInit
  /\ WsInit /\ IntervalInit /\ BrainInit
  /\ cleanupInterval = "null"
  /\ hasIndexedDB \in BOOLEAN
  /\ opensPending = 0
  /\ cleanupRuns = 0
  /\ inits = 0

PersistSpec == PersistSpecInit /\ [][PersistNext]_vars

(***************************************************************************)
(* C23: a setMetrics call hands exactly one record, built from its         *)
(* snapshot, to the durable buffer when persistenceEnabled is true and     *)
(* the open started by initPersistence has resolved, and none when either  *)
(* does not hold; no other step hands over a record; and every setMetrics  *)
(* call appends its sample to the in-memory history window.                *)
(***************************************************************************)
C23_AppendsOnlyWhenEnabledAndInitialized ==
  [][IF IsTick
     THEN /\ pendingSaves' =
               IF persistenceEnabled /\ persistenceInitialized
               THEN Append(pendingSaves, PersistedSample(metrics'))
               ELSE pendingSaves
          /\ Len(metricsHistory') = Len(metricsHistory) + 1
          /\ metricsHistory'[Len(metricsHistory')] = HistorySample(metrics')
     ELSE pendingSaves' = pendingSaves /\ metricsHistory' = metricsHistory]_vars

\* three snapshots are in the window; only one of them was handed to the
\* durable buffer, and persistence has been switched off since
C23_Witness ==
  /\ Len(metricsHistory) = 3
  /\ Len(pendingSaves) = 1
  /\ persistenceInitialized
  /\ ~persistenceEnabled

(***************************************************************************)
(* C24: once initPersistence has been called and has ended without any     *)
(* open having succeeded (IndexedDB is missing, or every open was          *)
(* rejected), persistenceEnabled is false, no cleanup timer is armed, no   *)
(* cleanup has run and no record has been handed to the durable buffer;    *)
(* the steps of initPersistence leave the store's error field as it was;   *)
(* and a setMetrics call made while no open has succeeded still appends    *)
(* to the history window and creates an Alert for every breached category  *)
(* that has no non-dismissed Alert.                                        *)
(***************************************************************************)
C24_UnavailableBufferDisablesQuietly ==
  [][/\ (inits' > 0 /\ opensPending' = 0 /\ ~persistenceInitialized') =>
          /\ persistenceEnabled' = FALSE
          /\ cleanupInterval' = "null"
          /\ cleanupRuns' = 0
          /\ pendingSaves' = <<>>
     /\ (inits' # inits \/ opensPending' # opensPending) => error' = error
     /\ (IsTick /\ ~persistenceInitialized) =>
          /\ pendingSaves' = pendingSaves
          /\ metricsHistory'[Len(metricsHistory')] = HistorySample(metrics')
          /\ Len(metricsHistory') = Len(metricsHistory) + 1
          /\ \A type \in AlertTypes :
               (alertsEnabled /\ Breaches(metrics', type) /\ Active(alerts, type) = {})
                 => Cardinality(CreatedFor(type)) = 1]_vars

\* IndexedDB is there but no open has succeeded and none is pending;
\* a breaching snapshot is in the window and has got its Alert
C24_Witness ==
  /\ hasIndexedDB
  /\ inits > 0 /\ opensPending = 0 /\ ~persistenceInitialized
  /\ ~persistenceEnabled
  /\ Len(metricsHistory) >= 1
  /\ alerts # <<>>
  /\ pendingSaves = <<>>

(***************************************************************************)
(* The environment of the useWebSocket hook: the application calls         *)
(* connect() and disconnect() (the effect and its cleanup, or the          *)
(* functions the hook returns), the browser delivers socket events and     *)
(* fires timers.  The application stops calling connect() while            *)
(* MaxSockets sockets and timers are alive.                                *)
(***************************************************************************)
WsFrame ==
  UNCHANGED <<serverVars, thVars, dbVars, persistVars, updateInterval, brainVars>>

ConnectCall ==
  /\ Cardinality(Alive) + Cardinality(timerPending) < MaxSockets
  /\ \E throws \in BOOLEAN : connect(timerPending, throws, "call")
  /\ afterDisconnect' = "none"
  /\ UNCHANGED <<connected, wsRest>>
  /\ WsFrame

DisconnectCall == disconnect /\ WsFrame

SocketOpens == (\E x \in Sockets : onopen(x)) /\ WsFrame

SocketMessage ==
  /\ ticks < MaxTicks
  /\ ticks' = ticks + 1
  /\ \E x \in Sockets : onmessage(x, Quiet(ticks + 1))
  /\ WsFrame

SocketErrors == (\E x \in Sockets : onerror(x)) /\ WsFrame

SocketCloses == (\E x \in Sockets : onclose(x)) /\ WsFrame

TimerFires == (\E t \in timerPending : ReconnectTimer(t)) /\ WsFrame

WsNext ==
  \/ ConnectCall \/ DisconnectCall \/ SocketOpens \/ SocketMessage
  \/ SocketErrors \/ SocketCloses \/ TimerFires

WsSpec == Init /\ [][WsNext]_vars

\* an armed browser timer fires after its delay: the timer callback is not
\* postponed for ever
WsLiveSpec == Init /\ [][WsNext]_vars /\ WF_vars(TimerFires)

(***************************************************************************)
(* C25: every delivered close event arms a reconnect timer with the fixed  *)
(* delay WS_RECONNECT_DELAY, and so does a throwing constructor; and       *)
(* whenever a reconnect timer is pending, a new connection attempt         *)
(* (new WebSocket) follows, unless disconnect() is called first or the     *)
(* hook already holds an open connection when the timer fires -- however   *)
(* many closes and failed attempts came before.                            *)
(***************************************************************************)
C25_ReconnectsAfterClose ==
  /\ [][/\ \A x \in timerPending' : x.delay = WS_RECONNECT_DELAY
        /\ (\E x \in Sockets : wsState[x] # "free" /\ wsState'[x] = "free")
             => (timerPending' \ timerPending) # {}
        /\ (attempts' # attempts /\ wsState' = wsState)
             => \E x \in timerPending' : x.id = reconnectTimeoutRef']_vars
  /\ \A n \in 0..(AttemptsMod - 1) :
       (timerPending # {} /\ attempts = n)
         ~> \/ attempts # n
            \/ afterDisconnect = "quiet"
            \/ wsRef # NoSocket /\ wsState[wsRef] = "open"

\* never disconnected: the latest of AttemptsMod (or a multiple of it)
\* connection attempts was made by a reconnect timer, and its socket is open
C25_Witness ==
  /\ afterDisconnect = "none"
  /\ lastAttempt = "timer"
  /\ connected
  /\ wsRef # NoSocket /\ wsState[wsRef] = "open"
  /\ error = NoError
  /\ attempts = 0

(***************************************************************************)
(* C27 (as claimed): from a disconnect() until the application's next      *)
(* connect() call, no reconnect timer is pending and no connection         *)
(* attempt is made.                                                        *)
(***************************************************************************)
C27_AsClaimed ==
  /\ afterDisconnect = "quiet" => timerPending = {}
  /\ afterDisconnect # "attempted"

(***************************************************************************)
(* C28 (as claimed): at most one reconnect timer is pending and at most    *)
(* one WebSocket is connecting or open.                                    *)
(***************************************************************************)
C28_AsClaimed ==
  /\ Cardinality(timerPending) <= 1
  /\ Cardinality({x \in Sockets : wsState[x] \in {"connecting", "open"}}) <= 1

(***************************************************************************)
(* The server with its settings route: the broadcast loop of               *)
(* setupWebSocket runs while clients update server.updateInterval through  *)
(* PUT /api/settings or reset the settings.                                *)
(***************************************************************************)
IntervalBodies ==
  {[server |-> [port |-> Undefined, updateInterval |-> u],
    enabled |-> Undefined, thresholds |-> <<>>] :
     u \in {Num(400), Num(2000), Num(10000)}}

IntervalPut == (\E body \in IntervalBodies : PutSettings(body)) /\ RoutesFrame

IntervalReset == PostSettingsReset /\ RoutesFrame

IntervalNext == ServerNext \/ IntervalPut \/ IntervalReset

IntervalSpec == Init /\ [][IntervalNext]_vars

(***************************************************************************)
(* C26 (as claimed): every firing of the broadcast interval happens with   *)
(* the timer's delay equal to the configured server.updateInterval, so     *)
(* that after an accepted update the ticks are spaced by the new value.    *)
(***************************************************************************)
\* the step is a firing of the interval callback
IsTimerFire == lastTick' # lastTick \/ ticksInFlight' = ticksInFlight + 1

C26_AsClaimed ==
  [][IsTimerFire => updateInterval = currentConfig.server.updateInterval]_vars

(***************************************************************************)
(* The escalation environment: notifications were granted in an earlier    *)
(* session.  The first snapshot has the cpu between its warning and its    *)
(* critical threshold and the memory above critical; every later snapshot  *)
(* has both above critical.  Memory alerts are dismissed at any time, the  *)
(* cpu warning Alert only early on.                                        *)
(***************************************************************************)
Warm(t) == [timestamp |-> t, cpu |-> 85, memory |-> 95, gpu |-> NoGpu]

EscalateStoreInit ==
  /\ alerts = <<>>
  /\ metricsHistory = <<>>
  /\ metrics = NoMetrics
  /\ status = NoStatus
  /\ alertThresholds = DEFAULT_THRESHOLDS
  /\ alertsEnabled = TRUE
  /\ persistenceEnabled = TRUE
  /\ connected = FALSE
  /\ error = NoError
  /\ persistenceInitialized = FALSE
  /\ storedAlerts = <<>>
  /\ permission = "granted"
  /\ promptPending = FALSE
  /\ notifications = {}
  /\ pendingSaves = <<>>
  /\ nextId = 1
  /\ ticks = 0
  /\ undismissed = {}

EscalateTick ==
  /\ ticks < MaxFloodTicks
  /\ ticks' = ticks + 1
  /\ setMetrics(IF ticks = 0 THEN Warm(1) ELSE Hot(ticks + 1))
  /\ UNCHANGED <<serverVars, thVars, dbVars, extVars>>

EscalateDismiss ==
  \E i \in 1..Len(alerts) :
    /\ alerts[i].type = "memory"
    /\ ~alerts[i].dismissed
    /\ dismissAlert(alerts[i].id)
    /\ UNCHANGED <<serverVars, thVars, dbVars, extVars>>

EscalateDismissWarning ==
  \E i \in 1..Len(alerts) :
    /\ ticks <= MaxEarlyTicks
    /\ alerts[i].severity = "warning"
    /\ ~alerts[i].dismissed
    /\ dismissAlert(alerts[i].id)
    /\ UNCHANGED <<serverVars, thVars, dbVars, extVars>>

EscalateNext == EscalateTick \/ EscalateDismiss \/ EscalateDismissWarning

EscalateInit ==
  /\ EscalateStoreInit /\ ServerInit /\ ThresholdInit /\ RoutesInit /\ DbInit
  /\ PersistInit /\ WsInit /\ IntervalInit /\ BrainInit

EscalateSpec == EscalateInit /\ [][EscalateNext]_vars

\* the snapshot m reaches the critical threshold of the category
ReachesCritical(m, type) ==
  \E i \in 1..Len(Observed(m, status)) :
    /\ Observed(m, status)[i].type = type
    /\ Observed(m, status)[i].value >= alertThresholds[type].critical

(***************************************************************************)
(* C29 (as claimed): setMetrics creates a critical Alert for a category    *)
(* only when no warning Alert created earlier for that category still      *)
(* awaits its dismissal.                                                   *)
(***************************************************************************)
C29_AsClaimed ==
  [][\A type \in AlertTypes :
       (IsTick /\ \E i \in CreatedFor(type) : alerts'[i].severity = "critical")
         => ~\E u \in undismissed : u.type = type /\ u.severity = "warning"]_vars

(***************************************************************************)
(* C29 (amended): on a setMetrics tick that reaches a category's critical  *)
(* threshold with alerts enabled, (a) while the list holds a non-dismissed *)
(* warning Alert of the category, no Alert is created for it, that Alert   *)
(* is as it was wherever it is still listed, and no notification is built  *)
(* for the category; (b) when the list holds no non-dismissed Alert of the *)
(* category -- after a dismissal, and also after the MAX_ALERTS cap has    *)
(* dropped the warning Alert -- exactly one critical Alert is created for  *)
(* it and, with the permission granted, notified.                          *)
(***************************************************************************)
C29_NoEscalationWhileListed ==
  [][\A type \in AlertTypes :
       (IsTick /\ alertsEnabled /\ ReachesCritical(metrics', type)) =>
         IF \E i \in Active(alerts, type) : alerts[i].severity = "warning"
         THEN /\ CreatedFor(type) = {}
              /\ \A i \in Active(alerts, type) : \A j \in 1..Len(alerts') :
                   alerts'[j].id = alerts[i].id => alerts'[j] = alerts[i]
              /\ \A j \in 1..Len(alerts') :
                   alerts'[j].type = type =>
                     alerts'[j].id \notin (notifications' \ notifications)
         ELSE Active(alerts, type) = {} =>
                /\ Cardinality(CreatedFor(type)) = 1
                /\ \A j \in CreatedFor(type) :
                     /\ alerts'[j].severity = "critical"
                     /\ (permission = "granted") =
                          (alerts'[j].id \in notifications')]_vars

\* the cpu warning Alert is listed and not dismissed, the latest snapshot
\* has the cpu above critical, and no critical cpu Alert or notification
\* has been made
C29_Witness ==
  /\ permission = "granted"
  /\ ticks = 2
  /\ metrics.cpu >= alertThresholds.cpu.critical
  /\ \E i \in Active(alerts, "cpu") :
       alerts[i].severity = "warning" /\ alerts[i].value < metrics.cpu
  /\ \A i \in OfType(alerts, "cpu") :
       alerts[i].severity = "warning" /\ alerts[i].id \notin notifications

(***************************************************************************)
(* The callers of switchBrain (POST /api/brain/switch): any target, on a   *)
(* host where switch.sh succeeds or fails and the status file can or       *)
(* cannot be written.                                                      *)
(***************************************************************************)
BrainFrame ==
  UNCHANGED <<storeVars, serverVars, thVars, dbVars, persistVars, wsVars,
              updateInterval>>

BrainSwitch ==
  /\ switches < MaxSwitches
  /\ \E target \in BrainModes, scriptOk, fileOk \in BOOLEAN :
       switchBrain(target, scriptOk, fileOk)
  /\ BrainFrame

BrainNext == BrainSwitch

BrainSpec == Init /\ [][BrainNext]_vars

(***************************************************************************)
(* C30 (as claimed): after any sequence of successful switchBrain calls,   *)
(* through the script or through the status-file fallback, switchHistory   *)
(* holds at most its last 100 entries.                                     *)
(***************************************************************************)
C30_AsClaimed == Len(switchHistory) <= SWITCH_HISTORY_LIMIT

====
